---- MODULE Spec2Model ----
(***************************************************************************)
(* A model of the Gmail digest tools (gmail_ai_summarizer.py and           *)
(* gmail_url_extractor.py): URL extraction, record building in             *)
(* fetch_emails, the annotation fallback and digest aggregation.           *)
(*                                                                         *)
(* Text is a sequence of one-character strings.  A Python dict is a        *)
(* sequence of <<key, value>> pairs in insertion order, or a TLA+ function *)
(* for the fixed-shape dicts.  A Python list built from a set has an       *)
(* unspecified order: every ordering is a possible result.                 *)
(*                                                                         *)
(* The specifications share the variables:                                 *)
(*   SpecUrl     extract_urls_from_text applied to bounded texts           *)
(*   SpecDigest  create_digest applied to bounded record sequences         *)
(*   SpecClean   clean_email_content applied to bounded payloads           *)
(*   SpecGet     get_email_content applied to bounded messages             *)
(*   SpecContent the content field built from texts around the limit       *)
(*   SpecRecord  the body of the fetch_emails loop applied to long texts    *)
(*   SpecMain    the dashboard session: the Authenticate and Fetch buttons  *)
(*   Spec        an object's life: authenticate_gmail, then fetch_emails   *)
(*               and the digest main builds from what it returns           *)
(***************************************************************************)
EXTENDS Integers, Sequences, FiniteSets, TLC

VARIABLES
    pc,        \* position: "input"/"done" for the pure functions
    text,      \* extract_urls_from_text: its argument
    found,     \* extract_urls_from_text: the list it returned
    variant,   \* the class in use: "summarizer" or "extractor"
    emails,    \* create_digest: its argument; fetch_emails: the list being built
    digest,    \* create_digest: the dict it returned
    service,          \* self.service: "None" or "gmail"
    openai_client,    \* whether self.openai_client is set (summarizer only)
    token_json,       \* the file token.json: "absent", "valid", "expired", "stale"
    credentials_json, \* whether the file credentials.json exists
    auth_result,      \* what the last authenticate_gmail call did
    auth_calls,       \* the number of authenticate_gmail calls so far
    token_writes,     \* the number of times token.json has been written
    messages,         \* fetch_emails: the listed message ids
    idx,              \* fetch_emails: the position of the loop in messages
    result,           \* fetch_emails: the list it returned
    trace,            \* per processed message: what the services did and
                      \* what summarize_with_ai returned
    st_errors,        \* the messages shown with st.error, in order
    api_calls,        \* the numbers of list, get and annotate requests sent
    parser_strict,    \* whether the HTML parser of the build refuses markup
                      \* it cannot read (or reads past it)
    payload,          \* clean_email_content: its argument
    cleaned,          \* clean_email_content: what the call came to
    message,          \* get_email_content: what the get request came back with
    fetched,          \* get_email_content: the values it returned
    content_field,    \* fetch_emails: the content field built from them
    session_state     \* st.session_state: authenticated, the stored object,
                      \* emails and digest (an attribute not set is <<>>)

urlVars == <<text, found>>
authVars == <<service, token_json, credentials_json, auth_result, auth_calls,
             token_writes>>
fetchVars == <<messages, idx, result, trace, api_calls>>
contentVars == <<payload, cleaned, message, fetched, content_field>>
mainVars == <<session_state>>

vars == <<pc, text, found, variant, emails, digest, service, openai_client,
          token_json, credentials_json, auth_result, auth_calls, token_writes,
          messages,
          idx, result, trace, st_errors, api_calls, parser_strict, payload,
          cleaned, message, fetched, content_field, session_state>>

\* st.session_state before main has run: no attribute is set.
NoSession == [authenticated |-> <<>>, object |-> <<>>, emails |-> <<>>, digest |-> <<>>]

\* The variables of the object, at rest in the specifications of the pure
\* functions.
ObjectAtRest ==
    /\ service = "None"
    /\ openai_client = FALSE
    /\ token_json = "absent"
    /\ credentials_json = FALSE
    /\ auth_result = "none"
    /\ auth_calls = 0
    /\ token_writes = 0
    /\ messages = <<>>
    /\ idx = 0
    /\ result = <<>>
    /\ trace = <<>>
    /\ st_errors = <<>>
    /\ api_calls = [list |-> 0, get |-> 0, annotate |-> 0]

\* The variables of the content functions, at rest in the other
\* specifications.
ContentAtRest ==
    /\ payload = <<>>
    /\ cleaned = <<>>
    /\ message = <<>>
    /\ fetched = <<>>
    /\ content_field = <<>>

----------------------------------------------------------------------------
(* Generic helpers *)

ToSet(s) == {s[i] : i \in DOMAIN s}

\* list(set(xs)): the elements of S, each once, in any order.
ListsOf(S) == {q \in [1..Cardinality(S) -> S] : ToSet(q) = S}

RECURSIVE Concat(_)
Concat(ss) == IF ss = <<>> THEN <<>> ELSE Head(ss) \o Concat(Tail(ss))

\* s[:n]
Take(s, n) == SubSeq(s, 1, IF Len(s) < n THEN Len(s) ELSE n)

\* Whether word w occurs in t at position p.
HasAt(t, p, w) ==
    /\ p >= 1
    /\ p + Len(w) - 1 <= Len(t)
    /\ SubSeq(t, p, p + Len(w) - 1) = w

----------------------------------------------------------------------------
(* extract_urls_from_text: the regular expression                          *)
(*   http[s]?://(?:[a-zA-Z]|[0-9]|[$-_@.&+]|[!*\\(\\),]|(?:%XX))+          *)

Letters ==
    { "a", "b", "c", "d", "e", "f", "g", "h", "i", "j", "k", "l", "m", "n", "o", "p",
      "q", "r", "s", "t", "u", "v", "w", "x", "y", "z", "A", "B", "C", "D", "E", "F",
      "G", "H", "I", "J", "K", "L", "M", "N", "O", "P", "Q", "R", "S", "T", "U", "V",
      "W", "X", "Y", "Z" }

Digits == { "0", "1", "2", "3", "4", "5", "6", "7", "8", "9" }

HexDigits == Digits \cup { "a", "b", "c", "d", "e", "f", "A", "B", "C", "D", "E", "F" }

\* The characters from "$" (0x24) to "_" (0x5F): what the range $-_ denotes.
DollarToUnderscore ==
    { "$", "%", "&", "'", "(", ")", "*", "+", ",", "-", ".", "/", "0", "1", "2", "3",
      "4", "5", "6", "7", "8", "9", ":", ";", "<", "=", ">", "?", "@", "A", "B", "C",
      "D", "E", "F", "G", "H", "I", "J", "K", "L", "M", "N", "O", "P", "Q", "R", "S",
      "T", "U", "V", "W", "X", "Y", "Z", "[", "\\", "]", "^", "_" }

\* A mutant: the class without the period.
SymbolClassNoDot == (DollarToUnderscore \cup { "@", "&", "+" }) \ { "." }

\* A mutant: $-_ read as the three characters $ - _ and not as a range.
SymbolClassNoRange == { "$", "-", "_", "@", ".", "&", "+" }

\* [$-_@.&+] : the range $-_ and the characters @ . & +
SymbolClass == DollarToUnderscore \cup { "@", ".", "&", "+" }

\* [!*\\(\\),] in a raw string: ! * \ ( ) ,
PunctClass == { "!", "*", "\\", "(", ")", "," }

\* One repetition of the group at position i: the number of characters the
\* first matching alternative consumes, 0 when none matches.
AltLen(t, i) ==
    IF i > Len(t) THEN 0
    ELSE IF t[i] \in Letters THEN 1
    ELSE IF t[i] \in Digits THEN 1
    ELSE IF t[i] \in SymbolClass THEN 1
    ELSE IF t[i] \in PunctClass THEN 1
    ELSE IF /\ t[i] = "%"
            /\ i + 2 <= Len(t)
            /\ t[i + 1] \in HexDigits
            /\ t[i + 2] \in HexDigits THEN 3
    ELSE 0

\* The greedy repetition (...)+ from position i: the position after the last
\* character consumed (i itself when nothing is consumed).
RECURSIVE BodyEnd(_, _)
BodyEnd(t, i) ==
    LET n == AltLen(t, i) IN IF n = 0 THEN i ELSE BodyEnd(t, i + n)

\* The pattern tried at position p: the position after the match, 0 for no
\* match.  [s]? is greedy: with the s first, then without.
MatchAt(t, p) ==
    IF ~HasAt(t, p, <<"h", "t", "t", "p">>) THEN 0
    ELSE LET withS    == IF HasAt(t, p + 4, <<"s", ":", "/", "/">>)
                         THEN BodyEnd(t, p + 8) ELSE 0
             withoutS == IF HasAt(t, p + 4, <<":", "/", "/">>)
                         THEN BodyEnd(t, p + 7) ELSE 0
         IN  IF withS > p + 8 THEN withS
             ELSE IF withoutS > p + 7 THEN withoutS
             ELSE 0

\* re.findall from position p: leftmost matches, not overlapping, as
\* <<start, end>> spans (end exclusive).  The scan moves to the first
\* position at or after p where the pattern matches, and goes on from the
\* end of that match.
RECURSIVE FindSpans(_, _)
FindSpans(t, p) ==
    LET starts == {q \in p..Len(t) : MatchAt(t, q) # 0}
    IN  IF starts = {} THEN <<>>
        ELSE LET q == CHOOSE s \in starts : \A r \in starts : s <= r
                 e == MatchAt(t, q)
             IN  <<<<q, e>>>> \o FindSpans(t, e)

re_findall(t) ==
    LET spans == FindSpans(t, 1)
    IN  [k \in DOMAIN spans |-> SubSeq(t, spans[k][1], spans[k][2] - 1)]

\* A mutant: the matches returned as found, not passed through set().
extract_urls_keep_duplicates(t) == {re_findall(t)}

\* The lists extract_urls_from_text may return for t.
extract_urls_from_text(t) == ListsOf(ToSet(re_findall(t)))

----------------------------------------------------------------------------
(* Characters, bytes, base64 and UTF-8: what                                *)
(* base64.urlsafe_b64decode(content).decode('utf-8') computes.  A string is *)
(* a sequence of characters; a character is a one-character string, or      *)
(* "U+n" for the code point n when TLA+ has no way to write it.             *)

\* The characters 0x20 to 0x5F, in order.
Printable ==
    << " ", "!", "\"", "#", "$", "%", "&", "'", "(", ")", "*", "+", ",", "-", ".", "/",
       "0", "1", "2", "3", "4", "5", "6", "7", "8", "9", ":", ";", "<", "=", ">", "?",
       "@", "A", "B", "C", "D", "E", "F", "G", "H", "I", "J", "K", "L", "M", "N", "O",
       "P", "Q", "R", "S", "T", "U", "V", "W", "X", "Y", "Z", "[", "\\", "]", "^", "_" >>

\* The characters 0x61 to 0x7E, in order.
PrintableLower ==
    << "a", "b", "c", "d", "e", "f", "g", "h", "i", "j", "k", "l", "m", "n", "o", "p",
       "q", "r", "s", "t", "u", "v", "w", "x", "y", "z", "{", "|", "}", "~" >>

\* chr(n)
Chr(n) ==
    IF n >= 32 /\ n <= 95 THEN Printable[n - 31]
    ELSE IF n >= 97 /\ n <= 126 THEN PrintableLower[n - 96]
    ELSE IF n = 9 THEN "\t"
    ELSE IF n = 10 THEN "\n"
    ELSE IF n = 12 THEN "\f"
    ELSE IF n = 13 THEN "\r"
    ELSE "U+" \o ToString(n)

\* ord(c) for an ASCII character the model writes as itself, 128 (not
\* ASCII) for any other.
Ord(c) ==
    IF c = "\t" THEN 9
    ELSE IF c = "\n" THEN 10
    ELSE IF c = "\f" THEN 12
    ELSE IF c = "\r" THEN 13
    ELSE IF \E i \in DOMAIN Printable : Printable[i] = c
         THEN 31 + (CHOOSE i \in DOMAIN Printable : Printable[i] = c)
    ELSE IF \E i \in DOMAIN PrintableLower : PrintableLower[i] = c
         THEN 96 + (CHOOSE i \in DOMAIN PrintableLower : PrintableLower[i] = c)
    ELSE 128

\* The base64 alphabet, in the URL-safe form ("-" and "_" for "+" and "/").
Base64Alphabet ==
    << "A", "B", "C", "D", "E", "F", "G", "H", "I", "J", "K", "L", "M", "N", "O", "P",
       "Q", "R", "S", "T", "U", "V", "W", "X", "Y", "Z", "a", "b", "c", "d", "e", "f",
       "g", "h", "i", "j", "k", "l", "m", "n", "o", "p", "q", "r", "s", "t", "u", "v",
       "w", "x", "y", "z", "0", "1", "2", "3", "4", "5", "6", "7", "8", "9", "-", "_" >>

\* The six bits a character stands for, 64 when it stands for none.  The
\* decoder translates "-" and "_" to "+" and "/" and accepts all four.
base64_value(c) ==
    IF c = "+" THEN 62
    ELSE IF c = "/" THEN 63
    ELSE IF \E i \in DOMAIN Base64Alphabet : Base64Alphabet[i] = c
         THEN (CHOOSE i \in DOMAIN Base64Alphabet : Base64Alphabet[i] = c) - 1
    ELSE 64

\* binascii.a2b_base64 without validation, from position i: quad is the
\* position in the group of four, left the bits not yet written, pads the
\* "=" seen in a row.  Characters outside the alphabet are skipped, padding
\* that completes a group ends the input, an incomplete group is an error.
RECURSIVE a2b_base64(_, _, _, _, _, _)
a2b_base64(s, i, quad, left, pads, out) ==
    IF i > Len(s) THEN [ok |-> quad = 0, bytes |-> out]
    ELSE IF s[i] = "=" THEN
        IF quad >= 2 /\ quad + pads + 1 >= 4 THEN [ok |-> TRUE, bytes |-> out]
        ELSE a2b_base64(s, i + 1, quad, left, IF quad >= 2 THEN pads + 1 ELSE pads, out)
    ELSE LET v == base64_value(s[i]) IN
        IF v = 64 THEN a2b_base64(s, i + 1, quad, left, pads, out)
        ELSE IF quad = 0 THEN a2b_base64(s, i + 1, 1, v, 0, out)
        ELSE IF quad = 1
             THEN a2b_base64(s, i + 1, 2, v % 16, 0, Append(out, left * 4 + (v \div 16)))
        ELSE IF quad = 2
             THEN a2b_base64(s, i + 1, 3, v % 4, 0, Append(out, left * 16 + (v \div 4)))
        ELSE a2b_base64(s, i + 1, 0, 0, 0, Append(out, left * 64 + v))

\* base64.urlsafe_b64decode(s) for a str: a string with a character that is
\* not ASCII is refused.
urlsafe_b64decode(s) ==
    IF \E i \in DOMAIN s : Ord(s[i]) >= 128 THEN [ok |-> FALSE, bytes |-> <<>>]
    ELSE a2b_base64(s, 1, 0, 0, 0, <<>>)

\* Whether b is a continuation byte within lo..hi.
Continues(bs, k, lo, hi) == k <= Len(bs) /\ bs[k] >= lo /\ bs[k] <= hi

\* bytes.decode('utf-8'), strict: the code points, or not ok for a sequence
\* that is not well formed.
RECURSIVE utf8_decode(_, _, _)
utf8_decode(bs, i, out) ==
    IF i > Len(bs) THEN [ok |-> TRUE, text |-> out]
    ELSE LET b == bs[i] IN
        IF b < 128 THEN utf8_decode(bs, i + 1, Append(out, Chr(b)))
        ELSE IF b >= 194 /\ b <= 223 THEN
            IF Continues(bs, i + 1, 128, 191)
            THEN utf8_decode(bs, i + 2,
                     Append(out, Chr((b - 192) * 64 + (bs[i + 1] - 128))))
            ELSE [ok |-> FALSE, text |-> <<>>]
        ELSE IF b >= 224 /\ b <= 239 THEN
            IF /\ Continues(bs, i + 1, IF b = 224 THEN 160 ELSE 128,
                                       IF b = 237 THEN 159 ELSE 191)
               /\ Continues(bs, i + 2, 128, 191)
            THEN utf8_decode(bs, i + 3,
                     Append(out, Chr((b - 224) * 4096 + (bs[i + 1] - 128) * 64
                                     + (bs[i + 2] - 128))))
            ELSE [ok |-> FALSE, text |-> <<>>]
        ELSE IF b >= 240 /\ b <= 244 THEN
            IF /\ Continues(bs, i + 1, IF b = 240 THEN 144 ELSE 128,
                                       IF b = 244 THEN 143 ELSE 191)
               /\ Continues(bs, i + 2, 128, 191)
               /\ Continues(bs, i + 3, 128, 191)
            THEN utf8_decode(bs, i + 4,
                     Append(out, Chr((b - 240) * 262144 + (bs[i + 1] - 128) * 4096
                                     + (bs[i + 2] - 128) * 64 + (bs[i + 3] - 128))))
            ELSE [ok |-> FALSE, text |-> <<>>]
        ELSE [ok |-> FALSE, text |-> <<>>]

\* A mutant: a payload that cannot be decoded is dropped.
decode_or_drop(content) ==
    LET bin == urlsafe_b64decode(content)
        txt == utf8_decode(bin.bytes, 1, <<>>)
    IN  IF bin.ok /\ txt.ok THEN txt.text ELSE <<>>

\* try: content = base64.urlsafe_b64decode(content).decode('utf-8')
\* except: pass
decode_or_keep(content) ==
    LET bin == urlsafe_b64decode(content)
        txt == utf8_decode(bin.bytes, 1, <<>>)
    IN  IF bin.ok /\ txt.ok THEN txt.text ELSE content

----------------------------------------------------------------------------
(* clean_email_content.  A body payload is a string.  The parser turns the *)
(* decoded string into markup and text: in the model a piece of markup is   *)
(* one element ("<p>", "</script>", ...) among the characters.              *)

\* body.get('data', '') without data.
NoData == <<>>

Tags == {"<p>", "</p>", "<script>", "</script>", "<style>", "</style>"}

\* A marked section with a keyword the parser does not know.
UnknownMarkedSection == "<![x>"

Markup == Tags \cup {UnknownMarkedSection}

\* The characters of each piece of markup.
MarkupChars ==
    [m \in Markup |->
        CASE m = "<p>" -> <<"<", "p", ">">>
          [] m = "</p>" -> <<"<", "/", "p", ">">>
          [] m = "<script>" -> <<"<", "s", "c", "r", "i", "p", "t", ">">>
          [] m = "</script>" -> <<"<", "/", "s", "c", "r", "i", "p", "t", ">">>
          [] m = "<style>" -> <<"<", "s", "t", "y", "l", "e", ">">>
          [] m = "</style>" -> <<"<", "/", "s", "t", "y", "l", "e", ">">>
          [] m = "<![x>" -> <<"<", "!", "[", "x", ">">>]

\* The scan of the parser over the string: the markup found, the other
\* characters as they are.
RECURSIVE tokenize(_)
tokenize(s) ==
    IF s = <<>> THEN <<>>
    ELSE LET here == {m \in Markup : HasAt(s, 1, MarkupChars[m])} IN
        IF here = {} THEN <<Head(s)>> \o tokenize(Tail(s))
        ELSE LET m == CHOOSE x \in here : TRUE
             IN  <<m>> \o tokenize(SubSeq(s, Len(MarkupChars[m]) + 1, Len(s)))

\* What the scan drops from inside a script or style element: everything up
\* to and including the closing tag (to the end when it is never closed).
RECURSIVE SkipElement(_, _)
SkipElement(t, close) ==
    IF t = <<>> THEN <<>>
    ELSE IF Head(t) = close THEN Tail(t)
    ELSE SkipElement(Tail(t), close)

\* Whether the parser meets, outside script and style elements, a marked
\* section it does not know.
RECURSIVE meets_unknown_section(_)
meets_unknown_section(t) ==
    IF t = <<>> THEN FALSE
    ELSE IF Head(t) = "<script>"
         THEN meets_unknown_section(SkipElement(Tail(t), "</script>"))
    ELSE IF Head(t) = "<style>"
         THEN meets_unknown_section(SkipElement(Tail(t), "</style>"))
    ELSE Head(t) = UnknownMarkedSection \/ meets_unknown_section(Tail(t))

\* The blanks BeautifulSoup calls ASCII spaces.
AsciiSpaces == {" ", "\n", "\t", "\f", "\r"}

\* A text node as the tree keeps it: one made of ASCII spaces only becomes a
\* single line break or a single space.
end_data(cur) ==
    IF cur # <<>> /\ ToSet(cur) \subseteq AsciiSpaces
    THEN (IF "\n" \in ToSet(cur) THEN <<"\n">> ELSE <<" ">>)
    ELSE cur

\* The text nodes of t in order, those inside script and style elements left
\* out; cur is the text node being read.
RECURSIVE text_nodes(_, _)
text_nodes(t, cur) ==
    IF t = <<>> THEN end_data(cur)
    ELSE IF Head(t) = "<script>"
         THEN end_data(cur) \o text_nodes(SkipElement(Tail(t), "</script>"), <<>>)
    ELSE IF Head(t) = "<style>"
         THEN end_data(cur) \o text_nodes(SkipElement(Tail(t), "</style>"), <<>>)
    ELSE IF Head(t) \in Markup THEN end_data(cur) \o text_nodes(Tail(t), <<>>)
    ELSE text_nodes(Tail(t), Append(cur, Head(t)))

\* A mutant: script and style elements are not removed, only their tags.
get_text_keeps_scripts(t) == SelectSeq(t, LAMBDA x : x \notin Markup)

\* soup.get_text() after decompose(): the text outside markup, the script
\* and style elements left out.
get_text(t) == text_nodes(t, <<>>)

\* The characters str.strip() removes.
Whitespace ==
    {" ", "\t", "\n", "\r", "\f"}
        \cup {Chr(n) : n \in {11, 28, 29, 30, 31, 133, 160, 5760, 8232, 8233,
                              8239, 8287, 12288} \cup (8192..8202)}

\* The characters str.splitlines() cuts at.
LineBreaks == {"\n", "\r", "\f"} \cup {Chr(n) : n \in {11, 28, 29, 30, 133, 8232, 8233}}

RECURSIVE LStrip(_)
LStrip(t) ==
    IF t # <<>> /\ Head(t) \in Whitespace THEN LStrip(Tail(t)) ELSE t

RECURSIVE RStrip(_)
RStrip(t) ==
    IF t # <<>> /\ t[Len(t)] \in Whitespace THEN RStrip(SubSeq(t, 1, Len(t) - 1)) ELSE t

\* str.strip()
Strip(t) == RStrip(LStrip(t))

\* text.splitlines(), without a last empty line.
RECURSIVE SplitLines(_, _)
SplitLines(t, cur) ==
    IF t = <<>> THEN (IF cur = <<>> THEN <<>> ELSE <<cur>>)
    ELSE IF Head(t) \in LineBreaks THEN <<cur>> \o SplitLines(Tail(t), <<>>)
    ELSE SplitLines(Tail(t), Append(cur, Head(t)))

\* line.split("  "): cut at each pair of spaces, left to right.
RECURSIVE SplitDoubleSpace(_, _)
SplitDoubleSpace(t, cur) ==
    IF t = <<>> THEN <<cur>>
    ELSE IF Len(t) >= 2 /\ t[1] = " " /\ t[2] = " "
         THEN <<cur>> \o SplitDoubleSpace(SubSeq(t, 3, Len(t)), <<>>)
    ELSE SplitDoubleSpace(Tail(t), Append(cur, Head(t)))

\* ' '.join(chunks)
RECURSIVE JoinWithSpace(_)
JoinWithSpace(chunks) ==
    IF chunks = <<>> THEN <<>>
    ELSE IF Len(chunks) = 1 THEN chunks[1]
    ELSE chunks[1] \o <<" ">> \o JoinWithSpace(Tail(chunks))

\* A mutant: the pieces joined as they are cut, empty ones included.
normalize_whitespace_keeps_empty(t) ==
    LET lines   == SplitLines(t, <<>>)
    IN  JoinWithSpace(Concat([i \in DOMAIN lines |->
                                 SplitDoubleSpace(Strip(lines[i]), <<>>)]))

\* The whitespace clean-up: stripped lines, cut at double spaces, the
\* stripped non-empty pieces joined by single spaces.
normalize_whitespace(t) ==
    LET lines   == SplitLines(t, <<>>)
        phrases == Concat([i \in DOMAIN lines |->
                       SplitDoubleSpace(Strip(lines[i]), <<>>)])
        chunks  == [i \in DOMAIN phrases |-> Strip(phrases[i])]
    IN  JoinWithSpace(SelectSeq(chunks, LAMBDA c : c # <<>>))

\* What a call of clean_email_content comes to: the string returned, or
\* raised when the parser refuses the markup, which a strict parser does for
\* a marked section it does not know.
clean_email_content(content, strict) ==
    IF content = <<>> THEN [raised |-> FALSE, text |-> <<>>]
    ELSE LET soup == tokenize(decode_or_keep(content)) IN
        IF strict /\ meets_unknown_section(soup)
        THEN [raised |-> TRUE, text |-> <<>>]
        ELSE [raised |-> FALSE, text |-> normalize_whitespace(get_text(soup))]

\* The string of a text: each piece of markup spelled out.
Chars(t) ==
    Concat([i \in DOMAIN t |-> IF t[i] \in Markup THEN MarkupChars[t[i]] ELSE <<t[i]>>])

\* The base64 encoding of bytes in the URL-safe alphabet, padded with "=".
RECURSIVE b2a_base64(_)
b2a_base64(bs) ==
    IF bs = <<>> THEN <<>>
    ELSE IF Len(bs) = 1 THEN
        << Base64Alphabet[(bs[1] \div 4) + 1], Base64Alphabet[(bs[1] % 4) * 16 + 1],
           "=", "=" >>
    ELSE IF Len(bs) = 2 THEN
        << Base64Alphabet[(bs[1] \div 4) + 1],
           Base64Alphabet[(bs[1] % 4) * 16 + (bs[2] \div 16) + 1],
           Base64Alphabet[(bs[2] % 16) * 4 + 1], "=" >>
    ELSE
        << Base64Alphabet[(bs[1] \div 4) + 1],
           Base64Alphabet[(bs[1] % 4) * 16 + (bs[2] \div 16) + 1],
           Base64Alphabet[(bs[2] % 16) * 4 + (bs[3] \div 64) + 1],
           Base64Alphabet[(bs[3] % 64) + 1] >> \o b2a_base64(SubSeq(bs, 4, Len(bs)))

\* The body data the mailbox sends for the ASCII text t: its base64url
\* encoding.
Encoded(t) == b2a_base64([i \in DOMAIN Chars(t) |-> Ord(Chars(t)[i])])

----------------------------------------------------------------------------
(* get_email_content.  A message is [headers, has_parts, parts, body]; what *)
(* the mailbox returns for a get is [ok, msg], ok false when the call       *)
(* raises.                                                                  *)

\* next((h['value'] for h in headers if h['name'] == name), default)
RECURSIVE header_value(_, _, _)
header_value(headers, name, default) ==
    IF headers = <<>> THEN default
    ELSE IF Head(headers).name = name THEN Head(headers).value
    ELSE header_value(Tail(headers), name, default)

\* A mutant: the loop does not stop at a text/plain part, the last text/plain
\* or text/html part is kept.
RECURSIVE select_part_last_wins(_, _)
select_part_last_wins(parts, body) ==
    IF parts = <<>> THEN body
    ELSE IF Head(parts).mimeType \in {"text/plain", "text/html"}
         THEN select_part_last_wins(Tail(parts), Head(parts).data)
    ELSE select_part_last_wins(Tail(parts), body)

\* The loop over the parts: the first text/plain part ends it, a text/html
\* part on the way overwrites body.
RECURSIVE select_part(_, _)
select_part(parts, body) ==
    IF parts = <<>> THEN body
    ELSE IF Head(parts).mimeType = "text/plain" THEN Head(parts).data
    ELSE IF Head(parts).mimeType = "text/html" THEN select_part(Tail(parts), Head(parts).data)
    ELSE select_part(Tail(parts), body)

\* The part selected from the parts list, or the payload's own body.
select_body(msg) ==
    IF msg.has_parts THEN select_part(msg.parts, NoData) ELSE msg.body

\* A mutant: the except branch returns the error text as the content.
get_email_content_error_text(got, strict) ==
    LET body    == select_body(got.msg)
        cleaned_content == clean_email_content(body, strict)
    IN  IF ~got.ok \/ cleaned_content.raised
        THEN [content |-> <<"e", "r", "r", "o", "r">>, subject |-> "", sender |-> "",
              date |-> "", failed |-> TRUE]
        ELSE [content |-> cleaned_content.text,
              subject |-> header_value(got.msg.headers, "Subject", "No Subject"),
              sender  |-> header_value(got.msg.headers, "From", "Unknown Sender"),
              date    |-> header_value(got.msg.headers, "Date", "Unknown Date"),
              failed  |-> FALSE]

\* A mutant: a failed retrieval reported with the defaults of absent headers.
get_email_content_defaults_on_error(got, strict) ==
    LET body    == select_body(got.msg)
        cleaned_content == clean_email_content(body, strict)
    IN  IF ~got.ok \/ cleaned_content.raised
        THEN [content |-> <<>>, subject |-> "No Subject", sender |-> "Unknown Sender",
              date |-> "Unknown Date", failed |-> TRUE]
        ELSE [content |-> cleaned_content.text,
              subject |-> header_value(got.msg.headers, "Subject", "No Subject"),
              sender  |-> header_value(got.msg.headers, "From", "Unknown Sender"),
              date    |-> header_value(got.msg.headers, "Date", "Unknown Date"),
              failed  |-> FALSE]

\* The four values returned; failed tells that the except branch was taken
\* (and "Error getting email content" shown): the get request raised, or
\* clean_email_content did.
get_email_content(got, strict) ==
    LET body    == select_body(got.msg)
        cleaned_content == clean_email_content(body, strict)
    IN  IF ~got.ok \/ cleaned_content.raised
        THEN [content |-> <<>>, subject |-> "", sender |-> "", date |-> "",
              failed |-> TRUE]
        ELSE [content |-> cleaned_content.text,
              subject |-> header_value(got.msg.headers, "Subject", "No Subject"),
              sender  |-> header_value(got.msg.headers, "From", "Unknown Sender"),
              date    |-> header_value(got.msg.headers, "Date", "Unknown Date"),
              failed  |-> FALSE]

----------------------------------------------------------------------------
(* summarize_with_ai.  What the annotation service does with a request is  *)
(* [kind, value]: "raise" (the call raises), "not_json" (a reply json.loads *)
(* rejects) or "json" with the parsed value; "none" when no request is made.*)
(* A JSON value is [type, fields]: an "object" with its fields, or another  *)
(* type ("array", "null", ...) with no fields.                              *)

Object(fields) == [type |-> "object", fields |-> fields]

NoFields == [summary |-> "none"]

NoReply == [kind |-> "none", value |-> [type |-> "null", fields |-> NoFields]]

\* The dict returned when there is no client or nothing to summarize.
not_summarized ==
    Object([summary |-> "No content to summarize or OpenAI not configured",
            key_points |-> <<>>, action_items |-> <<>>, sentiment |-> "neutral"])

\* str(e) in the summary of the except branch.
error_summary(kind) ==
    IF kind = "raise" THEN "Error in summarization: service error"
    ELSE "Error in summarization: JSONDecodeError"

\* A mutant: the except branch returns the dict without its list fields.
fallback_annotation_without_lists(kind) ==
    Object([summary |-> error_summary(kind), sentiment |-> "neutral"])

\* The dict returned by the except branch.
fallback_annotation(kind) ==
    Object([summary |-> error_summary(kind),
            key_points |-> <<>>, action_items |-> <<>>, sentiment |-> "neutral"])

\* Whether summarize_with_ai sends a request.
requests_annotation(client, content) == client /\ Strip(content) # <<>>

PromptLimit == 3000

\* What summarize_with_ai returns when the service answers its request with
\* reply.
summarize_with_ai(client, content, reply) ==
    IF ~requests_annotation(client, content) THEN not_summarized
    ELSE IF reply.kind \in {"raise", "not_json"} THEN fallback_annotation(reply.kind)
    ELSE reply.value

----------------------------------------------------------------------------
(* fetch_emails: the record built for one message *)

ContentLimit == 500

\* A mutant: the marker appended to every content.
truncate_content_always_marked(content) ==
    Take(content, ContentLimit) \o <<".", ".", ".">>

\* content[:500] + "..." if len(content) > 500 else content
truncate_content(content) ==
    IF Len(content) > ContentLimit
    THEN Take(content, ContentLimit) \o <<".", ".", ".">>
    ELSE content

AnnotationKeys == {"summary", "key_points", "action_items", "sentiment"}

\* Whether building email_data raises: ai_summary[key] on a value that is no
\* dict, or a dict without the key.
record_raises(ann) ==
    \/ ann.type # "object"
    \/ ~(AnnotationKeys \subseteq {k \in DOMAIN ann.fields : TRUE})

----------------------------------------------------------------------------
(* Inputs of SpecUrl *)

MaxFrags == 4

ShortUrl == <<"h", "t", "t", "p", ":", "/", "/", "x">>
HttpsPrefix == <<"h", "t", "t", "p", "s", ":", "/", "/">>

Frags == { ShortUrl, HttpsPrefix, <<"x">>, <<".">>, <<" ">>, <<"#">>, <<"/">>, <<"%">> }

\* "Visit https://example.com/page?a=1 now and http://x.io."
ExampleText ==
    << "V", "i", "s", "i", "t", " ", "h", "t", "t", "p", "s", ":", "/", "/",
       "e", "x", "a", "m", "p", "l", "e", ".", "c", "o", "m", "/", "p", "a",
       "g", "e", "?", "a", "=", "1", " ", "n", "o", "w", " ", "a", "n", "d",
       " ", "h", "t", "t", "p", ":", "/", "/", "x", ".", "i", "o", "." >>

Texts ==
    {Concat(fs) : fs \in UNION {[1..n -> Frags] : n \in 0..MaxFrags}}
        \cup {ExampleText}

InitUrl ==
    /\ pc = "input"
    /\ text \in Texts
    /\ found = <<>>
    /\ variant = "summarizer"
    /\ emails = <<>>
    /\ digest = <<>>
    /\ ObjectAtRest
    /\ parser_strict = FALSE
    /\ ContentAtRest
    /\ session_state = NoSession

ExtractUrls ==
    /\ pc = "input"
    /\ found' \in extract_urls_from_text(text)
    /\ pc' = "done"
    /\ UNCHANGED <<text, variant, emails, digest, openai_client, st_errors>>
    /\ UNCHANGED <<authVars, fetchVars>>
    /\ UNCHANGED <<parser_strict, contentVars, mainVars>>

NextUrl == ExtractUrls

SpecUrl == InitUrl /\ [][NextUrl]_vars

----------------------------------------------------------------------------
(* Claims about extract_urls_from_text, checked under SpecUrl *)

HttpPrefix == <<"h", "t", "t", "p", ":", "/", "/">>

NoDuplicates(q) == \A i, j \in DOMAIN q : i # j => q[i] # q[j]

\* C3: for every text the returned list has no duplicate strings and every
\* element starts with http:// or https://; the empty text gives the empty
\* list.
C3_DistinctAndPrefixed ==
    pc = "done" =>
        /\ NoDuplicates(found)
        /\ \A i \in DOMAIN found :
               HasAt(found[i], 1, HttpPrefix) \/ HasAt(found[i], 1, HttpsPrefix)
        /\ (text = <<>> => found = <<>>)

\* A text in which the same URL occurs twice, returned once.
C3_Witness ==
    /\ pc = "done"
    /\ Len(found) >= 1
    /\ Len(re_findall(text)) > Len(found)

ExampleUrl1 ==
    << "h", "t", "t", "p", "s", ":", "/", "/", "e", "x", "a", "m", "p", "l",
       "e", ".", "c", "o", "m", "/", "p", "a", "g", "e", "?", "a", "=", "1" >>

ExampleUrl2 == <<"h", "t", "t", "p", ":", "/", "/", "x", ".", "i", "o">>

\* An occurrence of u in t that ends the text or is followed by a character c
\* with ok[c] false.
OccursEndingBefore(t, u, ok) ==
    \E p \in 1..Len(t) :
        /\ HasAt(t, p, u)
        /\ (p + Len(u) > Len(t) \/ ~ok[t[p + Len(u)]])

\* C4 as stated: the example text yields the two URLs, the second without the
\* sentence's period.
C4_Original ==
    (pc = "done" /\ text = ExampleText) =>
        ToSet(found) = {ExampleUrl1, ExampleUrl2}

\* C4 amended: a period directly after the URL is part of the match: the
\* example text yields https://example.com/page?a=1 and http://x.io. (with
\* the period), and no returned URL stops in front of a period.
C4_TrailingPeriodKept ==
    pc = "done" =>
        /\ (text = ExampleText =>
                ToSet(found) = {ExampleUrl1, ExampleUrl2 \o <<".">>})
        /\ \A i \in DOMAIN found :
               OccursEndingBefore(text, found[i], [c \in ToSet(text) |-> c = "."])

C4_Witness ==
    /\ pc = "done"
    /\ text = ExampleText
    /\ \E i \in DOMAIN found : found[i] = ExampleUrl2 \o <<".">>

\* The symbols the claim lists: $ - _ @ . & + ! * ' ( ) ,
ClaimedSymbols == { "$", "-", "_", "@", ".", "&", "+", "!", "*", "'", "(", ")", "," }

ClaimedChars == Letters \cup Digits \cup ClaimedSymbols

\* b is made of claimed characters and percent-encoded octets only.
RECURSIVE ClaimedBody(_)
ClaimedBody(b) ==
    IF b = <<>> THEN TRUE
    ELSE IF Head(b) \in ClaimedChars THEN ClaimedBody(Tail(b))
    ELSE IF /\ Head(b) = "%"
            /\ Len(b) >= 3
            /\ b[2] \in HexDigits
            /\ b[3] \in HexDigits THEN ClaimedBody(SubSeq(b, 4, Len(b)))
    ELSE FALSE

\* u with a prefix http:// or https:// removed; <<>> when it has neither.
AfterPrefix(u) ==
    IF HasAt(u, 1, HttpsPrefix) THEN SubSeq(u, 9, Len(u))
    ELSE IF HasAt(u, 1, HttpPrefix) THEN SubSeq(u, 8, Len(u))
    ELSE <<>>

\* C5 as stated: after the prefix every returned string holds only letters,
\* digits, the symbols $-_@.&+!*'(), and %XX octets.
C5_Original ==
    pc = "done" =>
        \A i \in DOMAIN found :
            /\ AfterPrefix(found[i]) # <<>>
            /\ ClaimedBody(AfterPrefix(found[i]))

\* What the expression accepts after the prefix: letters, digits, every
\* character from "$" to "_" in ASCII order (so also % / : ; < = > ? [ \ ] ^
\* and a "%" that starts no octet), and "!".
AcceptedChars == Letters \cup Digits \cup DollarToUnderscore \cup { "!" }

\* C5 amended: every returned string is http:// or https:// followed by one
\* or more accepted characters, and the match is maximal: it ends the text or
\* is followed by a character that is not accepted.
C5_AcceptedAndMaximal ==
    pc = "done" =>
        \A i \in DOMAIN found :
            /\ AfterPrefix(found[i]) # <<>>
            /\ ToSet(AfterPrefix(found[i])) \subseteq AcceptedChars
            /\ OccursEndingBefore(text, found[i],
                   [c \in ToSet(text) |-> c \in AcceptedChars])

\* "http://x/%#": the match takes "/" and the lone "%" and stops at "#".
C5_Witness ==
    /\ pc = "done"
    /\ text = ShortUrl \o <<"/", "%", "#">>
    /\ found = <<ShortUrl \o <<"/", "%">>>>

----------------------------------------------------------------------------
(* create_digest *)

\* d[key] = d.get(key, 0) + 1 on a dict kept as <<key, count>> pairs in
\* insertion order.
CountOne(d, key) ==
    IF \E i \in DOMAIN d : d[i][1] = key
    THEN [i \in DOMAIN d |-> IF d[i][1] = key THEN <<key, d[i][2] + 1>> ELSE d[i]]
    ELSE Append(d, <<key, 1>>)

\* The counting loop over a sequence of keys.
RECURSIVE CountKeys(_)
CountKeys(ks) ==
    IF ks = <<>> THEN <<>>
    ELSE CountOne(CountKeys(SubSeq(ks, 1, Len(ks) - 1)), ks[Len(ks)])

\* A mutant: an item goes in front of the items of equal count.
RECURSIVE InsertBeforeEqual(_, _)
InsertBeforeEqual(s, x) ==
    IF s = <<>> THEN <<x>>
    ELSE IF Head(s)[2] > x[2] THEN <<Head(s)>> \o InsertBeforeEqual(Tail(s), x)
    ELSE <<x>> \o s

\* x placed in s, which is in descending order of count, behind every item
\* whose count is not smaller: the sort is stable.
RECURSIVE InsertByCount(_, _)
InsertByCount(s, x) ==
    IF s = <<>> THEN <<x>>
    ELSE IF Head(s)[2] >= x[2] THEN <<Head(s)>> \o InsertByCount(Tail(s), x)
    ELSE <<x>> \o s

\* sorted(items, key=lambda x: x[1], reverse=True)
RECURSIVE SortedByCountDesc(_)
SortedByCountDesc(items) ==
    IF items = <<>> THEN <<>>
    ELSE InsertByCount(SortedByCountDesc(SubSeq(items, 1, Len(items) - 1)),
                       items[Len(items)])

TopSenders == 5
TopDomains == 10

top_senders(es) ==
    Take(SortedByCountDesc(CountKeys([i \in DOMAIN es |-> es[i].sender])), TopSenders)

\* all_urls: every record's urls, in record order.
all_urls(es) == Concat([i \in DOMAIN es |-> es[i].urls])

\* The first position from p on that holds one of / ? #, Len(u) + 1 if none.
RECURSIVE NetlocEnd(_, _)
NetlocEnd(u, p) ==
    IF p > Len(u) THEN p
    ELSE IF u[p] \in {"/", "?", "#"} THEN p
    ELSE NetlocEnd(u, p + 1)

\* urllib.parse.urlparse(url).netloc for a string that starts with http:// or
\* https://: what lies between the "//" and the next / ? or #.
netloc(u) ==
    LET from == IF HasAt(u, 1, <<"h", "t", "t", "p", "s">>) THEN 9 ELSE 8
    IN  SubSeq(u, from, NetlocEnd(u, from) - 1)

\* urlparse raises ValueError for a netloc with one bracket and not the other.
netloc_raises(u) == ("[" \in ToSet(netloc(u))) # ("]" \in ToSet(netloc(u)))

\* The url_domains loop: one count per element of all_urls whose parse does
\* not raise.
url_domain_counts(es) ==
    LET us   == all_urls(es)
        good == SelectSeq(us, LAMBDA u : ~netloc_raises(u))
    IN  CountKeys([i \in DOMAIN good |-> netloc(good[i])])

\* A mutant: the records that carry the placeholder of summarize_with_ai
\* are left out of the count.
sentiment_counts_annotated_only(es) ==
    LET annotated == SelectSeq(es, LAMBDA r :
                        r.summary # "No content to summarize or OpenAI not configured")
    IN  CountKeys([i \in DOMAIN annotated |-> annotated[i].sentiment])

\* sentiment_counts: one count per record, under the record's sentiment.
sentiment_counts(es) == CountKeys([i \in DOMAIN es |-> es[i].sentiment])

\* A mutant: start and end the other way round.
date_range_first_to_last(es) == [start |-> es[1].date, end |-> es[Len(es)].date]

\* date_range: start from emails[-1], end from emails[0].
date_range(es) == [start |-> es[Len(es)].date, end |-> es[1].date]

\* A mutant: unique_urls built from the first record's urls alone.
unique_urls_of_first(es) == ListsOf(ToSet(es[1].urls))

\* list(set(all_urls)): the orders it may come in.
unique_urls(es) == ListsOf(ToSet(all_urls(es)))

\* The dict built after the guard, in each order unique_urls may come in.
build_digest(v, es) ==
    IF v = "summarizer" THEN
        {[total_emails          |-> Len(es),
          unique_urls           |-> uu,
          sentiment_distribution |-> sentiment_counts(es),
          action_items          |-> Concat([i \in DOMAIN es |-> es[i].action_items]),
          top_senders           |-> top_senders(es),
          date_range            |-> date_range(es)]
         : uu \in unique_urls(es)}
    ELSE
        {[total_emails |-> Len(es),
          unique_urls  |-> uu,
          total_urls   |-> Len(all_urls(es)),
          top_senders  |-> top_senders(es),
          url_domains  |-> Take(SortedByCountDesc(url_domain_counts(es)), TopDomains),
          date_range   |-> date_range(es)]
         : uu \in unique_urls(es)}

\* A mutant: no early return; the empty list gets a dict of zero and empty
\* fields.
create_digest_default_fields(v, es) ==
    IF es # <<>> THEN build_digest(v, es)
    ELSE IF v = "summarizer" THEN
        {[total_emails |-> 0, unique_urls |-> <<>>, sentiment_distribution |-> <<>>,
          action_items |-> <<>>, top_senders |-> <<>>,
          date_range |-> [start |-> "None", end |-> "None"]]}
    ELSE
        {[total_emails |-> 0, unique_urls |-> <<>>, total_urls |-> 0,
          top_senders |-> <<>>, url_domains |-> <<>>,
          date_range |-> [start |-> "None", end |-> "None"]]}

\* The dicts create_digest may return for es; {} is the function of empty
\* domain.
create_digest(v, es) ==
    IF es = <<>> THEN {<<>>} ELSE build_digest(v, es)

\* None in the place of a list of strings (a JSON null in the reply),
\* written as a sequence so that it can stand where the lists stand and be
\* compared with them.  No list of the replies holds its element.
NoneItems == <<"<None>">>

\* Whether create_digest leaves with an exception:
\* all_action_items.extend(None) in the summarizer.  (In the extractor the
\* parse of a url is inside a try, and nothing else can raise for records
\* built by fetch_emails.)
create_digest_raises(v, es) ==
    v = "summarizer" /\ \E i \in DOMAIN es : es[i].action_items = NoneItems

----------------------------------------------------------------------------
(* Inputs of SpecDigest *)

MaxEmails == 3
MaxExtra == 1

Variants == {"summarizer", "extractor"}

UrlAX == <<"h", "t", "t", "p", ":", "/", "/", "a", "/", "x">>
UrlAY == <<"h", "t", "t", "p", ":", "/", "/", "a", "/", "y">>
UrlB == <<"h", "t", "t", "p", "s", ":", "/", "/", "b">>

\* The dict fetch_emails builds for one message, in the summarizer.
SummarizerRecord(id, subject, sender, date, content, urls, ann) ==
    [id |-> id, subject |-> subject, sender |-> sender, date |-> date,
     content |-> content, urls |-> urls,
     summary |-> ann.summary, key_points |-> ann.key_points,
     action_items |-> ann.action_items, sentiment |-> ann.sentiment]

\* The dict fetch_emails builds for one message, in the extractor.
ExtractorRecord(id, subject, sender, date, content, urls) ==
    [id |-> id, subject |-> subject, sender |-> sender, date |-> date,
     content |-> content, urls |-> urls, url_count |-> Len(urls)]

\* A record of either class from the fields create_digest reads.
InputRecord(v, sender, date, urls, sentiment, items) ==
    IF v = "summarizer"
    THEN SummarizerRecord(0, "s", sender, date, <<>>, urls,
             [summary |-> "sum", key_points |-> <<>>,
              action_items |-> items, sentiment |-> sentiment])
    ELSE ExtractorRecord(0, "s", sender, date, <<>>, urls)

RecordPool(v) ==
    { InputRecord(v, "A", "d1", <<UrlAX, UrlAY>>, "positive", <<"i1">>),
      InputRecord(v, "B", "d2", <<UrlAY, UrlB>>, "neutral", <<>>),
      InputRecord(v, "A", "d3", <<>>, "negative", <<"i1", "i2">>),
      InputRecord(v, "C", "d1", <<UrlB>>, "positive", <<"i2">>),
      InputRecord(v, "B", "d4", <<UrlAX>>, "mixed", <<>>),
      InputRecord(v, "", "", <<>>, "neutral", <<>>) }

SeqsUpTo(S, n) == UNION {[1..k -> S] : k \in 0..n}

SixSenders == {"A", "B", "C", "D", "E", "F"}

BareRecord(v, sender) == InputRecord(v, sender, "d1", <<>>, "neutral", <<>>)

\* Six records from six distinct senders in any order, then up to MaxExtra
\* more: the inputs with more senders than top_senders keeps.
CrowdedSenders ==
    { first \o extra :
        first \in {q \in [1..6 -> SixSenders] : ToSet(q) = SixSenders},
        extra \in SeqsUpTo(SixSenders, MaxExtra) }

\* The senders A, B, A, C, B, A.
ExampleSenders == <<"A", "B", "A", "C", "B", "A">>

DigestInputs(v) ==
    SeqsUpTo(RecordPool(v), MaxEmails)
        \cup { [i \in DOMAIN ss |-> BareRecord(v, ss[i])] :
                 ss \in CrowdedSenders \cup {ExampleSenders} }

InitDigest ==
    /\ pc = "input"
    /\ variant \in Variants
    /\ emails \in DigestInputs(variant)
    /\ digest = <<>>
    /\ text = <<>>
    /\ found = <<>>
    /\ ObjectAtRest
    /\ parser_strict = FALSE
    /\ ContentAtRest
    /\ session_state = NoSession

CreateDigest ==
    /\ pc = "input"
    /\ digest' \in create_digest(variant, emails)
    /\ pc' = "done"
    /\ UNCHANGED <<text, found, variant, emails, openai_client, st_errors>>
    /\ UNCHANGED <<authVars, fetchVars>>
    /\ UNCHANGED <<parser_strict, contentVars, mainVars>>

NextDigest == CreateDigest

SpecDigest == InitDigest /\ [][NextDigest]_vars

----------------------------------------------------------------------------
(* Claims about create_digest, checked under SpecDigest *)

RECURSIVE SumUrlCounts(_)
SumUrlCounts(es) ==
    IF es = <<>> THEN 0 ELSE Len(Head(es).urls) + SumUrlCounts(Tail(es))

UrlUnion(es) == UNION {ToSet(es[i].urls) : i \in DOMAIN es}

HasField(d, f) == f \in {g \in DOMAIN d : TRUE}

DigestCounts ==
    /\ HasField(digest, "total_emails")
    /\ digest.total_emails = Len(emails)
    /\ ToSet(digest.unique_urls) = UrlUnion(emails)
    /\ NoDuplicates(digest.unique_urls)
    /\ Len(digest.unique_urls) <= SumUrlCounts(emails)
    /\ (variant = "extractor" => digest.total_urls = SumUrlCounts(emails))

\* C1 as stated: for every record sequence, the empty one included,
\* total_emails is the number of records, unique_urls is the union of the
\* records' urls without duplicates, and there are at most as many
\* unique_urls as the records' url counts add up to (total_urls in the
\* extractor).
C1_Original == pc = "done" => DigestCounts

\* C1 amended: the same for every non-empty record sequence (the empty one
\* gets a dict without these fields).
C1_NonEmptyDigestCounts == (pc = "done" /\ emails # <<>>) => DigestCounts

\* Several records that share a URL.
C1_Witness ==
    /\ pc = "done"
    /\ Len(emails) >= 2
    /\ Len(digest.unique_urls) >= 2
    /\ Len(digest.unique_urls) < SumUrlCounts(emails)

SendersOf(es) == {es[i].sender : i \in DOMAIN es}

CountOf(es, s) == Cardinality({i \in DOMAIN es : es[i].sender = s})

FirstSeen(es, s) == CHOOSE i \in DOMAIN es :
    es[i].sender = s /\ \A j \in DOMAIN es : es[j].sender = s => i <= j

\* Sender a ranks before sender b: more records, or as many and seen first.
RanksBefore(es, a, b) ==
    \/ CountOf(es, a) > CountOf(es, b)
    \/ CountOf(es, a) = CountOf(es, b) /\ FirstSeen(es, a) < FirstSeen(es, b)

\* C2: top_senders holds (sender, count) pairs, the count being the number
\* of records with exactly that sender, in descending order of count, equal
\* counts in order of first appearance, the five best ranked senders at
\* most; the senders A, B, A, C, B, A give (A,3), (B,2), (C,1).
C2_TopSendersRanked ==
    (pc = "done" /\ emails # <<>>) =>
        LET ts == digest.top_senders IN
        /\ Len(ts) = (IF Cardinality(SendersOf(emails)) < 5
                      THEN Cardinality(SendersOf(emails)) ELSE 5)
        /\ \A i \in DOMAIN ts :
               /\ ts[i][1] \in SendersOf(emails)
               /\ ts[i][2] = CountOf(emails, ts[i][1])
        /\ \A i, j \in DOMAIN ts :
               i < j => RanksBefore(emails, ts[i][1], ts[j][1])
        /\ \A s \in SendersOf(emails) \ {ts[i][1] : i \in DOMAIN ts} :
               \A i \in DOMAIN ts : RanksBefore(emails, ts[i][1], s)
        /\ ([i \in DOMAIN emails |-> emails[i].sender] = ExampleSenders =>
               ts = << <<"A", 3>>, <<"B", 2>>, <<"C", 1>> >>)

\* Six senders, one of them twice: the ranking is cut to five and the four
\* behind the leader are tied.
C2_Witness ==
    /\ pc = "done"
    /\ Cardinality(SendersOf(emails)) = 6
    /\ Len(emails) = 7
    /\ Len(digest.top_senders) = 5
    /\ digest.top_senders[1][2] = 2
    /\ digest.top_senders[2][2] = 1

\* C6 as stated: the empty sequence gives a digest with total_emails 0 and
\* its collections present and empty.
C6_Original ==
    (pc = "done" /\ emails = <<>>) =>
        /\ HasField(digest, "total_emails")
        /\ digest.total_emails = 0
        /\ digest.unique_urls = <<>>
        /\ digest.top_senders = <<>>
        /\ (variant = "summarizer" =>
               digest.sentiment_distribution = <<>> /\ digest.action_items = <<>>)

\* C6 amended: the empty sequence gives the empty dict: no total_emails, no
\* collection, no field at all.
C6_EmptyInputEmptyDict ==
    (pc = "done" /\ emails = <<>>) => DOMAIN digest = {}

C6_Witness == pc = "done" /\ emails = <<>> /\ digest = <<>>

\* The distinct URLs of the records whose authority is d.
UrlsOfDomain(es, d) == {u \in UrlUnion(es) : netloc(u) = d}

\* The position in all_urls of the first URL whose authority is d.
DomainFirstSeen(es, d) ==
    CHOOSE i \in DOMAIN all_urls(es) :
        /\ netloc(all_urls(es)[i]) = d
        /\ \A j \in DOMAIN all_urls(es) : netloc(all_urls(es)[j]) = d => i <= j

\* C12: in the extractor, url_domains counts each distinct URL once toward
\* its authority however many records contain it, lists the (domain, count)
\* pairs in descending order of count, equal counts in first-seen order, and
\* has at most 10 entries.
C12_DomainsCountDistinctUrls ==
    (pc = "done" /\ variant = "extractor" /\ emails # <<>>) =>
        LET ud == digest.url_domains IN
        /\ Len(ud) <= 10
        /\ \A k \in DOMAIN ud :
               ud[k][2] = Cardinality(UrlsOfDomain(emails, ud[k][1]))
        /\ \A k, l \in DOMAIN ud :
               k < l =>
                   \/ ud[k][2] > ud[l][2]
                   \/ /\ ud[k][2] = ud[l][2]
                      /\ DomainFirstSeen(emails, ud[k][1]) < DomainFirstSeen(emails, ud[l][1])

\* C17: date_range.start is the date of the last record of the input and
\* date_range.end the date of the first, by position, whatever the dates
\* are.
C17_DateRangeByPosition ==
    (pc = "done" /\ emails # <<>>) =>
        /\ digest.date_range.start = emails[Len(emails)].date
        /\ digest.date_range.end = emails[1].date

\* Three records dated d1, d2, d3 in this order: start is d3, end is d1.
C17_Witness ==
    /\ pc = "done"
    /\ Len(emails) = 3
    /\ <<emails[1].date, emails[2].date, emails[3].date>> = <<"d1", "d2", "d3">>
    /\ digest.date_range = [start |-> "d3", end |-> "d1"]

----------------------------------------------------------------------------
(* The object: construction, authenticate_gmail, fetch_emails *)

MaxMsgs == 2
MaxAuthCalls == 1

TokenStates == {"absent", "valid", "expired", "stale"}

\* not os.path.exists('credentials.json')
credentials_missing(creds_file) == ~creds_file

\* A mutant: a valid cached token is not used, the login flow runs anyway.
auth_path_ignores_valid(token, creds_file) ==
    IF token = "expired" THEN "refresh"
    ELSE IF ~creds_file THEN "no_credentials"
    ELSE "flow"

\* The branch authenticate_gmail takes for the token it finds: the cached
\* token when valid, a refresh when expired with a refresh token, else the
\* login flow, which needs credentials.json.
auth_path(token, creds_file) ==
    IF token = "valid" THEN "cached"
    ELSE IF token = "expired" THEN "refresh"
    ELSE IF credentials_missing(creds_file) THEN "no_credentials"
    ELSE "flow"

\* What a call of authenticate_gmail may come to for the token and the
\* credentials file it finds, with what the outside does: whether the
\* refresh or the login flow succeeds, whether build() succeeds.  result is
\* what the call returns ("raised" when it leaves with the exception of the
\* refresh or the flow), builds whether self.service is assigned, token the
\* file token.json afterwards, writes the number of times it was written,
\* errors the messages shown.
authenticate_outcomes(token, creds_file) ==
    LET path == auth_path(token, creds_file)
    IN  { IF path = "no_credentials" THEN
              [result |-> "False", builds |-> FALSE, token |-> token, writes |-> 0,
               errors |-> <<"Please download your Gmail API credentials">>]
          ELSE IF path \in {"refresh", "flow"} /\ ~login_ok THEN
              [result |-> "raised", builds |-> FALSE, token |-> token, writes |-> 0,
               errors |-> <<>>]
          ELSE
              [result |-> IF build_ok THEN "True" ELSE "False",
               builds |-> build_ok,
               token  |-> IF path = "cached" THEN token ELSE "valid",
               writes |-> IF path = "cached" THEN 0 ELSE 1,
               errors |-> IF build_ok THEN <<>> ELSE <<"Error building Gmail service">>]
          : login_ok \in BOOLEAN, build_ok \in BOOLEAN }

\* A call of authenticate_gmail on the object.
authenticate_gmail ==
    /\ pc = "idle"
    /\ auth_calls < MaxAuthCalls
    /\ auth_calls' = auth_calls + 1
    /\ \E out \in authenticate_outcomes(token_json, credentials_json) :
        /\ auth_result' = out.result
        /\ service' = IF out.builds THEN "gmail" ELSE service
        /\ token_json' = out.token
        /\ token_writes' = token_writes + out.writes
        /\ st_errors' = st_errors \o out.errors
    /\ UNCHANGED <<pc, variant, emails, openai_client, credentials_json>>
    /\ UNCHANGED <<urlVars, digest, fetchVars>>
    /\ UNCHANGED <<parser_strict, contentVars, mainVars>>

\* A mutant: the guard of fetch_emails dropped.
service_missing_unchecked(svc) == FALSE

\* not self.service
service_missing(svc) == svc = "None"

Header(name, value) == [name |-> name, value |-> value]

Part(mimeType, data) == [mimeType |-> mimeType, data |-> data]

\* A single body: <p>hi  http://x</p>
MessageSingle ==
    [headers   |-> <<Header("Subject", "Hello"), Header("From", "A"),
                     Header("Date", "d1")>>,
     has_parts |-> FALSE,
     parts     |-> <<>>,
     body      |-> Encoded(<<"<p>", "h", "i", " ", " ">> \o ShortUrl \o <<"</p>">>)]

\* Two parts, html before plain; a header named "subject", no Date.
MessageParts ==
    [headers   |-> <<Header("subject", "lower"), Header("From", "B")>>,
     has_parts |-> TRUE,
     parts     |-> <<Part("text/html", Encoded(<<"<script>", "x", "</script>", "w">>)),
                     Part("text/plain", Encoded(<<"o", "k", "\n">>))>>,
     body      |-> NoData]

\* No header and no body data.
MessageEmpty ==
    [headers |-> <<>>, has_parts |-> FALSE, parts |-> <<>>, body |-> NoData]

\* A body with a marked section the parser of a strict build refuses.
MessageRejected ==
    [headers   |-> <<Header("Subject", "Bad"), Header("From", "C"),
                     Header("Date", "d2")>>,
     has_parts |-> FALSE,
     parts     |-> <<>>,
     body      |-> Encoded(<<"b", UnknownMarkedSection>>)]

MessagePool == {MessageSingle, MessageParts, MessageEmpty, MessageRejected}

\* What a get request may come back with.
GetOutcomes ==
    {[ok |-> FALSE, msg |-> MessageEmpty]} \cup {[ok |-> TRUE, msg |-> m] : m \in MessagePool}

\* What get_email_content returns for each outcome of the get request, with
\* each parser.
FetchedContent ==
    [got \in GetOutcomes, strict \in BOOLEAN |-> get_email_content(got, strict)]

NoAnnotation == [type |-> "null", fields |-> NoFields]

\* What the annotation service may do with a request.
Replies ==
    { [kind |-> "raise", value |-> NoAnnotation],
      [kind |-> "not_json", value |-> NoAnnotation],
      [kind |-> "json",
       value |-> Object([summary |-> "sum", key_points |-> <<"k1">>,
                         action_items |-> <<"i1">>, sentiment |-> "positive"])],
      [kind |-> "json",
       value |-> Object([summary |-> "sum", key_points |-> <<>>,
                         action_items |-> <<>>, sentiment |-> "mixed"])],
      [kind |-> "json",
       value |-> Object([summary |-> "sum", sentiment |-> "positive"])],
      [kind |-> "json", value |-> [type |-> "array", fields |-> NoFields]] }

\* The id lists a list request may return: distinct ids, in any order.
IdLists ==
    UNION {{q \in [1..n -> 1..MaxMsgs] : \A i, j \in 1..n : i # j => q[i] # q[j]}
              : n \in 0..MaxMsgs}

Init ==
    /\ pc = "idle"
    /\ variant \in Variants
    /\ openai_client \in (IF variant = "summarizer" THEN BOOLEAN ELSE {FALSE})
    /\ st_errors = (IF variant = "summarizer" /\ ~openai_client
                    THEN <<"OpenAI API key not found">> ELSE <<>>)
    /\ service = "None"
    /\ token_json \in TokenStates
    /\ credentials_json \in BOOLEAN
    /\ auth_result = "none"
    /\ auth_calls = 0
    /\ token_writes = 0
    /\ messages = <<>>
    /\ idx = 0
    /\ emails = <<>>
    /\ result = <<>>
    /\ trace = <<>>
    /\ api_calls = [list |-> 0, get |-> 0, annotate |-> 0]
    /\ text = <<>>
    /\ found = <<>>
    /\ digest = <<>>
    /\ parser_strict \in BOOLEAN
    /\ ContentAtRest
    /\ session_state = NoSession

\* fetch_emails up to the loop: the guard, then the list request.
fetch_emails_list ==
    /\ pc = "idle"
    /\ IF service_missing(service) THEN
           /\ st_errors' = Append(st_errors, "Gmail service not initialized")
           /\ result' = <<>>
           /\ pc' = "returned"
           /\ UNCHANGED <<messages, idx, emails, api_calls>>
       ELSE
           /\ api_calls' = [api_calls EXCEPT !.list = @ + 1]
           /\ \/ /\ st_errors' = Append(st_errors, "Error fetching emails")
                 /\ result' = <<>>
                 /\ pc' = "returned"
                 /\ UNCHANGED <<messages, idx, emails>>
              \/ /\ messages' \in IdLists
                 /\ emails' = <<>>
                 /\ idx' = 1
                 /\ pc' = "fetching"
                 /\ UNCHANGED <<st_errors, result>>
    /\ UNCHANGED <<variant, openai_client, trace>>
    /\ UNCHANGED <<urlVars, digest, authVars>>
    /\ UNCHANGED <<parser_strict, contentVars, mainVars>>

\* A mutant: the urls taken from the content field of the record, not from
\* the whole content.
fetch_emails_turns_urls_of_field(v, client, id, c, replies) ==
    LET asks == v = "summarizer" /\ requests_annotation(client, c.content)
    IN  { LET ann    == IF v = "summarizer"
                        THEN summarize_with_ai(client, c.content, reply)
                        ELSE NoAnnotation
              raises == v = "summarizer" /\ record_raises(ann)
          IN  [asked          |-> asks,
               prompt_content |-> Take(c.content, PromptLimit),
               reply          |-> reply,
               ann            |-> ann,
               raises         |-> raises,
               records        |-> IF raises THEN <<>>
                                  ELSE IF v = "summarizer"
                                  THEN <<SummarizerRecord(id, c.subject, c.sender,
                                             c.date, truncate_content(c.content),
                                             urls, ann.fields)>>
                                  ELSE <<ExtractorRecord(id, c.subject, c.sender,
                                             c.date, truncate_content(c.content),
                                             urls)>>]
          : urls \in extract_urls_from_text(truncate_content(c.content)),
            reply \in (IF asks THEN replies ELSE {NoReply}) }

\* The body of the loop for the values c that get_email_content returned
\* for the message id: the urls of the content, the annotation (summarizer),
\* the record with its content field, or the exception that ends fetch_emails.
\* One outcome for each order of the urls and each reply of the service.
fetch_emails_turns(v, client, id, c, replies) ==
    LET asks == v = "summarizer" /\ requests_annotation(client, c.content)
    IN  { LET ann    == IF v = "summarizer"
                        THEN summarize_with_ai(client, c.content, reply)
                        ELSE NoAnnotation
              raises == v = "summarizer" /\ record_raises(ann)
          IN  [asked          |-> asks,
               prompt_content |-> Take(c.content, PromptLimit),
               reply          |-> reply,
               ann            |-> ann,
               raises         |-> raises,
               records        |-> IF raises THEN <<>>
                                  ELSE IF v = "summarizer"
                                  THEN <<SummarizerRecord(id, c.subject, c.sender,
                                             c.date, truncate_content(c.content),
                                             urls, ann.fields)>>
                                  ELSE <<ExtractorRecord(id, c.subject, c.sender,
                                             c.date, truncate_content(c.content),
                                             urls)>>]
          : urls \in extract_urls_from_text(c.content),
            reply \in (IF asks THEN replies ELSE {NoReply}) }

\* One turn of the loop: the get request, the record's fields, the
\* annotation (summarizer), the record appended, or the exception that ends
\* fetch_emails with [].
fetch_emails_message ==
    /\ pc = "fetching"
    /\ idx <= Len(messages)
    /\ \E got \in GetOutcomes :
        LET c == FetchedContent[got, parser_strict]
        IN
        \E turn \in fetch_emails_turns(variant, openai_client, messages[idx], c, Replies) :
            /\ api_calls' = [api_calls EXCEPT !.get = @ + 1,
                                !.annotate = @ + (IF turn.asked THEN 1 ELSE 0)]
            /\ trace' = Append(trace,
                   [id |-> messages[idx], got |-> got, content |-> c.content,
                    asked |-> turn.asked, prompt_content |-> turn.prompt_content,
                    reply |-> turn.reply, ann |-> turn.ann])
            /\ st_errors' = st_errors
                   \o (IF c.failed THEN <<"Error getting email content">> ELSE <<>>)
                   \o (IF turn.asked /\ turn.reply.kind \in {"raise", "not_json"}
                       THEN <<"Error in AI summarization">> ELSE <<>>)
                   \o (IF turn.raises THEN <<"Error fetching emails">> ELSE <<>>)
            /\ IF turn.raises THEN
                   /\ result' = <<>>
                   /\ pc' = "returned"
                   /\ UNCHANGED <<emails, idx>>
               ELSE
                   /\ emails' = emails \o turn.records
                   /\ idx' = idx + 1
                   /\ UNCHANGED <<result, pc>>
    /\ UNCHANGED <<variant, openai_client, messages>>
    /\ UNCHANGED <<urlVars, digest, authVars>>
    /\ UNCHANGED <<parser_strict, contentVars, mainVars>>

\* The loop is over: return emails.
fetch_emails_return ==
    /\ pc = "fetching"
    /\ idx > Len(messages)
    /\ result' = emails
    /\ pc' = "returned"
    /\ UNCHANGED <<variant, openai_client, emails, messages, idx, trace,
                   st_errors, api_calls>>
    /\ UNCHANGED <<urlVars, digest, authVars>>
    /\ UNCHANGED <<parser_strict, contentVars, mainVars>>

\* main, after fetch_emails has returned: a non-empty list is handed to
\* create_digest (an empty one only shows an error).
main_create_digest ==
    /\ pc = "returned"
    /\ result # <<>>
    /\ IF create_digest_raises(variant, result)
       THEN /\ pc' = "digest_raised"
            /\ UNCHANGED digest
       ELSE /\ digest' \in create_digest(variant, result)
            /\ pc' = "digested"
    /\ UNCHANGED <<variant, openai_client, emails, st_errors>>
    /\ UNCHANGED <<urlVars, authVars, fetchVars>>
    /\ UNCHANGED <<parser_strict, contentVars, mainVars>>

Next ==
    \/ authenticate_gmail
    \/ fetch_emails_list
    \/ fetch_emails_message
    \/ fetch_emails_return
    \/ main_create_digest

Spec == Init /\ [][Next]_vars

----------------------------------------------------------------------------
(* Claims about fetch_emails and summarize_with_ai, checked under Spec *)

\* C7: in the summarizer nothing the annotation service does for a message
\* aborts the batch: fetch_emails returns one record per listed message.
C7_AnnotationNeverAborts ==
    (pc = "returned" /\ variant = "summarizer") =>
        /\ Len(result) = Len(messages)
        /\ \A i \in DOMAIN result : result[i].id = messages[i]

ErrorSummaries ==
    {"Error in summarization: service error", "Error in summarization: JSONDecodeError"}

\* C8: whenever the annotation request fails (the call raises or the reply
\* is not JSON), summarize_with_ai returns the fallback: a summary that
\* tells the error, no key_points, no action_items, sentiment neutral; and
\* the record of that message carries it.
C8_FallbackOnFailure ==
    \A i \in DOMAIN trace :
        (trace[i].asked /\ trace[i].reply.kind \in {"raise", "not_json"}) =>
            /\ trace[i].ann \in
                   {Object([summary |-> e, key_points |-> <<>>,
                            action_items |-> <<>>, sentiment |-> "neutral"])
                      : e \in ErrorSummaries}
            /\ i <= Len(emails)
            /\ emails[i].summary \in ErrorSummaries
            /\ emails[i].key_points = <<>>
            /\ emails[i].action_items = <<>>
            /\ emails[i].sentiment = "neutral"

\* A returned batch with a message whose reply was not JSON.
C8_Witness ==
    /\ pc = "returned"
    /\ Len(result) = 2
    /\ trace[1].reply.kind = "not_json"
    /\ trace[2].reply.kind = "raise"
    /\ result[1].summary = "Error in summarization: JSONDecodeError"

\* The list request raised: it was sent, no get followed, and the error of
\* the outer except branch was shown.
ListFailed ==
    /\ api_calls.list = 1
    /\ api_calls.get = 0
    /\ st_errors # <<>>
    /\ st_errors[Len(st_errors)] = "Error fetching emails"

\* The outer except branch of fetch_emails was taken.
BatchAborted == "Error fetching emails" \in ToSet(st_errors)

\* C9 as stated: a failed retrieval of any message fails the whole batch.
C9_Original ==
    (pc = "returned" /\ \E i \in DOMAIN trace : ~trace[i].got.ok) => result = <<>>

\* C9 amended: a failure of the list request makes fetch_emails return [];
\* a failure retrieving one message does not end the batch: the loop goes
\* on with a degraded record for it (its id, empty subject, sender, date and
\* content, no urls, no annotation requested), and unless the batch is
\* aborted fetch_emails returns one record per listed message.
C9_GetFailureDegradesRecord ==
    /\ (pc = "returned" /\ ListFailed) => result = <<>>
    /\ \A i \in DOMAIN trace :
           ~trace[i].got.ok =>
               /\ ~trace[i].asked
               /\ i <= Len(emails)
               /\ emails[i].id = messages[i]
               /\ emails[i].subject = ""
               /\ emails[i].sender = ""
               /\ emails[i].date = ""
               /\ emails[i].content = <<>>
               /\ emails[i].urls = <<>>
    /\ (pc = "returned" /\ service # "None" /\ ~BatchAborted) =>
           result = emails /\ Len(result) = Len(messages)

\* A returned batch of two: the first retrieval failed, the second did not.
C9_Witness ==
    /\ pc = "returned"
    /\ Len(result) = 2
    /\ ~trace[1].got.ok
    /\ trace[2].got.ok
    /\ result[1].subject = ""
    /\ result[2].content # <<>>

\* C10: without a service handle fetch_emails returns [] and sends no list,
\* get or annotate request.
C10_NoServiceNoCalls ==
    service = "None" =>
        /\ api_calls = [list |-> 0, get |-> 0, annotate |-> 0]
        /\ trace = <<>>
        /\ pc # "fetching"
        /\ (pc = "returned" => result = <<>>)

\* fetch_emails called after an authenticate_gmail that failed.
C10_Witness ==
    /\ pc = "returned"
    /\ service = "None"
    /\ auth_result = "False"
    /\ result = <<>>

----------------------------------------------------------------------------
(* Claims about the digest main builds from the fetched records, checked    *)
(* under Spec                                                               *)

\* The number of records of es, among those at the positions in I, whose
\* sentiment is s.
SentimentCount(es, I, s) == Cardinality({i \in I : es[i].sentiment = s})

\* The sentiment_distribution sd counts, of the records es, those at the
\* positions in I: each sentiment found there is a key once, with the
\* number of those records as its count, and there is no other key.
CountsRecordsAt(sd, es, I) ==
    /\ \A k \in DOMAIN sd : sd[k][2] = SentimentCount(es, I, sd[k][1]) /\ sd[k][2] > 0
    /\ \A k, l \in DOMAIN sd : k # l => sd[k][1] # sd[l][1]
    /\ \A i \in I : \E k \in DOMAIN sd : sd[k][1] = es[i].sentiment

\* The positions of the messages for which an annotation was requested.
Requested == {i \in DOMAIN trace : trace[i].asked}

\* C11 as stated: sentiment_distribution counts the records whose annotation
\* was requested from the service, and no other.
C11_Original ==
    (pc = "digested" /\ variant = "summarizer") =>
        CountsRecordsAt(digest.sentiment_distribution, result, Requested)

\* C11 amended: sentiment_distribution counts every record once, under the
\* record's sentiment; a record for which no annotation was requested
\* carries the placeholder with sentiment neutral and is counted as neutral.
C11_EveryRecordCounted ==
    (pc = "digested" /\ variant = "summarizer") =>
        /\ CountsRecordsAt(digest.sentiment_distribution, result, DOMAIN result)
        /\ \A i \in DOMAIN result \ Requested :
               /\ result[i].sentiment = "neutral"
               /\ result[i].summary = "No content to summarize or OpenAI not configured"

\* A digest of two records, one annotated positive by the service and one
\* for which nothing was requested: neutral is counted once.
C11_Witness ==
    /\ pc = "digested"
    /\ variant = "summarizer"
    /\ Len(result) = 2
    /\ Cardinality(Requested) = 1
    /\ \E i \in Requested : result[i].sentiment = "positive"
    /\ \E k \in DOMAIN digest.sentiment_distribution :
           digest.sentiment_distribution[k] = <<"neutral", 1>>

\* The sentiments the prompt of summarize_with_ai asks for.
Sentiments == {"positive", "negative", "neutral"}

\* C13: every record built by the summarizer's fetch_emails has a sentiment
\* among positive, negative, neutral (another value returned by the service
\* is mapped to neutral), and so has every key of the digest's
\* sentiment_distribution.
C13_SentimentInEnum ==
    variant = "summarizer" =>
        /\ \A i \in DOMAIN emails : emails[i].sentiment \in Sentiments
        /\ pc = "digested" =>
               \A k \in DOMAIN digest.sentiment_distribution :
                   digest.sentiment_distribution[k][1] \in Sentiments

----------------------------------------------------------------------------
(* Inputs of SpecClean: clean_email_content applied to bounded payloads *)

MaxTokens == 3

\* Pieces of texts with markup, and pieces of texts with blanks.
MarkupFrags ==
    {"a", "<p>", "<script>", "</script>", "<style>", "</style>", UnknownMarkedSection}

BlankFrags == {"a", " ", "\n", "\t", "<p>"}

\* <script>evil()</script><p>Hello  World</p>
ExampleHtml ==
    << "<script>", "e", "v", "i", "l", "(", ")", "</script>", "<p>", "H", "e",
       "l", "l", "o", " ", " ", "W", "o", "r", "l", "d", "</p>" >>

\* %%%not-base64%%%
ExampleNotBase64 ==
    << "%", "%", "%", "n", "o", "t", "-", "b", "a", "s", "e", "6", "4", "%",
       "%", "%" >>

\* a<style>a</style><script>a</script> a
ExampleStyled ==
    << "a", "<style>", "a", "</style>", "<script>", "a", "</script>", " ", "a" >>

ContentTexts ==
    SeqsUpTo(MarkupFrags, MaxTokens) \cup SeqsUpTo(BlankFrags, MaxTokens)
        \cup {ExampleHtml, ExampleNotBase64, ExampleStyled}

\* Each text as the string it is, and as its base64url encoding.
ContentPayloads == {Chars(t) : t \in ContentTexts} \cup {Encoded(t) : t \in ContentTexts}

InitClean ==
    /\ pc = "input"
    /\ payload \in ContentPayloads
    /\ parser_strict \in BOOLEAN
    /\ cleaned = <<>>
    /\ message = <<>>
    /\ fetched = <<>>
    /\ content_field = <<>>
    /\ text = <<>>
    /\ found = <<>>
    /\ variant = "summarizer"
    /\ emails = <<>>
    /\ digest = <<>>
    /\ ObjectAtRest
    /\ session_state = NoSession

CleanContent ==
    /\ pc = "input"
    /\ cleaned' = clean_email_content(payload, parser_strict)
    /\ pc' = "done"
    /\ UNCHANGED <<payload, message, fetched, content_field, parser_strict, mainVars>>
    /\ UNCHANGED <<variant, emails, digest, openai_client, st_errors>>
    /\ UNCHANGED <<urlVars, authVars, fetchVars>>

NextClean == CleanContent

SpecClean == InitClean /\ [][NextClean]_vars

----------------------------------------------------------------------------
(* Claims about clean_email_content, checked under SpecClean *)

\* Whether the payload is base64url of UTF-8 text, and the text it encodes.
Decodes(content) ==
    /\ urlsafe_b64decode(content).ok
    /\ utf8_decode(urlsafe_b64decode(content).bytes, 1, <<>>).ok

Decoded(content) == utf8_decode(urlsafe_b64decode(content).bytes, 1, <<>>).text

\* The markup and text clean_email_content works on: the decoded text of a
\* payload that decodes, the payload itself when it does not.
Source(content) ==
    tokenize(IF Decodes(content) THEN Decoded(content) ELSE content)

\* C18: clean_email_content never surfaces an error.  An empty payload gives
\* the empty string; a payload that decodes as base64url UTF-8 gives its
\* decoded text, processed; one that does not decode (as %%%not-base64%%%)
\* gives the payload itself, processed as literal text.
C18_NeverSurfacesError ==
    pc = "done" =>
        /\ ~cleaned.raised
        /\ payload = <<>> => cleaned.text = <<>>
        /\ payload # <<>> =>
               cleaned.text = normalize_whitespace(get_text(Source(payload)))

\* The closing tag of an opening script or style tag.
Closer(open) == IF open = "<script>" THEN "</script>" ELSE "</style>"

\* Position i of the markup t lies inside a script or style element: after
\* an opening tag that starts one, with no closing tag of that element in
\* between.  An opening tag starts an element unless it lies inside one.
RECURSIVE InsideScriptOrStyle(_, _)
InsideScriptOrStyle(t, i) ==
    \E j \in 1..(i - 1) :
        /\ t[j] \in {"<script>", "<style>"}
        /\ \A k \in (j + 1)..(i - 1) : t[k] # Closer(t[j])
        /\ ~InsideScriptOrStyle(t, j)

\* The characters of t outside markup and outside script and style
\* elements, from position i on.
RECURSIVE VisibleFrom(_, _)
VisibleFrom(t, i) ==
    IF i > Len(t) THEN <<>>
    ELSE (IF t[i] \notin Markup /\ ~InsideScriptOrStyle(t, i) THEN <<t[i]>> ELSE <<>>)
             \o VisibleFrom(t, i + 1)

\* The characters inside script and style elements.
HiddenChars(t) ==
    {t[i] : i \in {k \in DOMAIN t : t[k] \notin Markup /\ InsideScriptOrStyle(t, k)}}

NonBlank(s) == SelectSeq(s, LAMBDA c : c \notin Whitespace)

\* C19: the text returned holds nothing of the content of script and style
\* elements: apart from blanks it is, character by character, the text
\* outside those elements and outside tags.  For
\* <script>evil()</script><p>Hello  World</p> it is "Hello World".
C19_NoScriptOrStyleContent ==
    (pc = "done" /\ ~cleaned.raised) =>
        /\ NonBlank(cleaned.text) = NonBlank(VisibleFrom(Source(payload), 1))
        /\ payload \in {Chars(ExampleHtml), Encoded(ExampleHtml)} =>
               cleaned.text = <<"H", "e", "l", "l", "o", " ", "W", "o", "r", "l", "d">>

\* The example: the script is gone, the text of the paragraph is left.
C19_Witness ==
    /\ pc = "done"
    /\ payload = Chars(ExampleHtml)
    /\ "e" \in HiddenChars(Source(payload))
    /\ cleaned.text = <<"H", "e", "l", "l", "o", " ", "W", "o", "r", "l", "d">>

\* The fragments of a text: its lines cut at each pair of spaces, each piece
\* trimmed, the empty ones left out.
Fragments(t) ==
    LET lines   == SplitLines(t, <<>>)
        pieces  == Concat([i \in DOMAIN lines |-> SplitDoubleSpace(lines[i], <<>>)])
        trimmed == [i \in DOMAIN pieces |-> Strip(pieces[i])]
    IN  SelectSeq(trimmed, LAMBDA f : f # <<>>)

\* C20: the string returned is a single whitespace-normalized line: it has
\* no line break, no two consecutive spaces, and no whitespace at its start
\* or end; it is the non-empty trimmed fragments of the extracted text, cut
\* at line breaks and double spaces, joined by single spaces.
C20_SingleNormalizedLine ==
    (pc = "done" /\ ~cleaned.raised) =>
        LET out == cleaned.text IN
        /\ \A i \in DOMAIN out : out[i] \notin LineBreaks
        /\ \A i \in 1..(Len(out) - 1) : ~(out[i] = " " /\ out[i + 1] = " ")
        /\ out # <<>> => (out[1] \notin Whitespace /\ out[Len(out)] \notin Whitespace)
        /\ payload # <<>> => out = JoinWithSpace(Fragments(get_text(Source(payload))))

\* A text of two lines has become one line.
C20_Witness ==
    /\ pc = "done"
    /\ payload = Encoded(<<"a", "\n", "a">>)
    /\ cleaned = [raised |-> FALSE, text |-> <<"a", " ", "a">>]

----------------------------------------------------------------------------
(* Inputs of SpecGet: get_email_content applied to bounded messages *)

MaxHeaders == 2
MaxParts == 3

HeaderPool ==
    { Header("Subject", "S1"), Header("Subject", "S2"), Header("subject", "s"),
      Header("From", "F1"), Header("Date", "D1"), Header("To", "T1") }

\* Body data whose text is the single character c.
Data(c) == Encoded(<<c>>)

\* Body data the parser of a strict build refuses.
RejectedData == Encoded(<<UnknownMarkedSection>>)

PartPool ==
    { Part("text/plain", Data("p")), Part("text/plain", Data("q")),
      Part("text/plain", NoData),
      Part("text/html", Encoded(<<"<p>", "h", "</p>">>)),
      Part("text/html", Encoded(<<"<p>", "i", "</p>">>)),
      Part("multipart/mixed", Data("m")),
      Part("text/html", RejectedData) }

\* Messages with each header list, messages with each parts list, and
\* messages with a body of their own.
GetMessages ==
    { [headers |-> hs, has_parts |-> TRUE,
       parts |-> <<Part("text/plain", Data("p"))>>, body |-> NoData] :
          hs \in SeqsUpTo(HeaderPool, MaxHeaders) }
    \cup
    { [headers |-> <<Header("Subject", "S1")>>, has_parts |-> TRUE,
       parts |-> ps, body |-> Data("b")] : ps \in SeqsUpTo(PartPool, MaxParts) }
    \cup
    { [headers |-> <<Header("From", "F1")>>, has_parts |-> FALSE,
       parts |-> <<>>, body |-> b] : b \in {NoData, Data("b"), RejectedData} }

InitGet ==
    /\ pc = "input"
    /\ message \in {[ok |-> FALSE, msg |-> MessageEmpty]}
                       \cup {[ok |-> TRUE, msg |-> m] : m \in GetMessages}
    /\ parser_strict \in BOOLEAN
    /\ fetched = <<>>
    /\ content_field = <<>>
    /\ payload = <<>>
    /\ cleaned = <<>>
    /\ text = <<>>
    /\ found = <<>>
    /\ variant \in Variants
    /\ emails = <<>>
    /\ digest = <<>>
    /\ ObjectAtRest
    /\ session_state = NoSession

GetEmailContent ==
    /\ pc = "input"
    /\ fetched' = get_email_content(message, parser_strict)
    /\ st_errors' = st_errors
           \o (IF fetched'.failed THEN <<"Error getting email content">> ELSE <<>>)
    /\ pc' = "done"
    /\ UNCHANGED <<message, payload, cleaned, content_field, parser_strict, mainVars>>
    /\ UNCHANGED <<variant, emails, digest, openai_client>>
    /\ UNCHANGED <<urlVars, authVars, fetchVars>>

NextGet == GetEmailContent

SpecGet == InitGet /\ [][NextGet]_vars

----------------------------------------------------------------------------
(* Claims about get_email_content, checked under SpecGet *)

\* The positions of the parts of type ty.
PartsOfType(parts, ty) == {i \in DOMAIN parts : parts[i].mimeType = ty}

Least(I) == CHOOSE i \in I : \A j \in I : i <= j
Greatest(I) == CHOOSE i \in I : \A j \in I : i >= j

\* The body the selection policy names: the first text/plain part; with no
\* text/plain part the last text/html part; with neither, nothing; without
\* a parts list, the payload's own body.
PolicyBody(msg) ==
    IF ~msg.has_parts THEN msg.body
    ELSE IF PartsOfType(msg.parts, "text/plain") # {}
         THEN msg.parts[Least(PartsOfType(msg.parts, "text/plain"))].data
    ELSE IF PartsOfType(msg.parts, "text/html") # {}
         THEN msg.parts[Greatest(PartsOfType(msg.parts, "text/html"))].data
    ELSE NoData

\* C14: the content get_email_content returns for a retrieved message is
\* the cleaned body of the first text/plain part (whatever precedes it), of
\* the last text/html part when there is no text/plain part, empty when
\* there is neither, and of the payload's own body without a parts list.
C14_BodySelection ==
    (pc = "done" /\ ~fetched.failed) =>
        fetched.content = clean_email_content(PolicyBody(message.msg), parser_strict).text

\* A text/html part, then two text/plain parts: the first text/plain one
\* is the content.
C14_Witness ==
    /\ pc = "done"
    /\ message.ok
    /\ message.msg.parts =
           << Part("text/html", Encoded(<<"<p>", "h", "</p>">>)),
              Part("text/plain", Data("q")), Part("text/plain", Data("p")) >>
    /\ fetched.content = <<"q">>

\* Two text/html parts and no text/plain part: the last one is the content.
C14_WitnessHtml ==
    /\ pc = "done"
    /\ message.ok
    /\ message.msg.parts =
           << Part("text/html", Encoded(<<"<p>", "h", "</p>">>)),
              Part("text/html", Encoded(<<"<p>", "i", "</p>">>)),
              Part("multipart/mixed", Data("m")) >>
    /\ fetched.content = <<"i">>

\* The value of the first header named exactly name, or the default.
FirstHeader(headers, name, default) ==
    LET named == {i \in DOMAIN headers : headers[i].name = name}
    IN  IF named = {} THEN default ELSE headers[Least(named)].value

\* C15: for every retrieved message, subject, sender and date are the values
\* of the first header named exactly Subject, From and Date (a header
\* named subject does not count), and No Subject, Unknown Sender and
\* Unknown Date when there is no such header.
C15_HeadersByExactName ==
    (pc = "done" /\ message.ok) =>
        /\ fetched.subject = FirstHeader(message.msg.headers, "Subject", "No Subject")
        /\ fetched.sender = FirstHeader(message.msg.headers, "From", "Unknown Sender")
        /\ fetched.date = FirstHeader(message.msg.headers, "Date", "Unknown Date")

\* The same for the calls in which clean_email_content returns.
C15_HeadersWhenBodyCleaned ==
    (pc = "done" /\ message.ok /\ ~fetched.failed) =>
        /\ fetched.subject = FirstHeader(message.msg.headers, "Subject", "No Subject")
        /\ fetched.sender = FirstHeader(message.msg.headers, "From", "Unknown Sender")
        /\ fetched.date = FirstHeader(message.msg.headers, "Date", "Unknown Date")

----------------------------------------------------------------------------
(* Inputs of SpecContent: the content field of a record, built from texts   *)
(* of lengths up to and beyond the limit                                    *)

MaxOver == 3

Marker == <<".", ".", ".">>

\* The ends of the texts: nothing more, three periods, two, another letter.
Endings == {<<>>, Marker, <<".", ".">>, <<"b">>}

\* Normalized texts of every length from 0 to MaxOver beyond the limit,
\* with each ending.
LongTexts ==
    { [i \in 1..n |-> "a"] \o e : n \in 0..(ContentLimit + MaxOver), e \in Endings }

InitContent ==
    /\ pc = "input"
    /\ fetched \in { [content |-> t, subject |-> "s", sender |-> "A", date |-> "d1",
                      failed |-> FALSE] : t \in LongTexts }
    /\ content_field = <<>>
    /\ parser_strict = FALSE
    /\ payload = <<>>
    /\ cleaned = <<>>
    /\ message = <<>>
    /\ text = <<>>
    /\ found = <<>>
    /\ variant \in Variants
    /\ emails = <<>>
    /\ digest = <<>>
    /\ ObjectAtRest
    /\ session_state = NoSession

StoreContent ==
    /\ pc = "input"
    /\ content_field' = truncate_content(fetched.content)
    /\ pc' = "done"
    /\ UNCHANGED <<payload, cleaned, message, fetched, parser_strict, mainVars>>
    /\ UNCHANGED <<variant, emails, digest, openai_client, st_errors>>
    /\ UNCHANGED <<urlVars, authVars, fetchVars>>

NextContent == StoreContent

SpecContent == InitContent /\ [][NextContent]_vars

----------------------------------------------------------------------------
(* Claims about the content field, checked under SpecContent *)

EndsWithMarker(t) == Len(t) >= 3 /\ SubSeq(t, Len(t) - 2, Len(t)) = Marker

\* The content field is the text when the text has at most 500 characters,
\* its first 500 characters followed by the marker when it has more, and
\* has at most 503 characters.
ContentFieldBuilt(field, t) ==
    /\ Len(t) <= 500 => field = t
    /\ Len(t) > 500 => field = SubSeq(t, 1, 500) \o Marker
    /\ Len(field) <= 503

\* C16 as stated: the content field is built as above, and it ends with
\* the marker only when the text was truncated.
C16_Original ==
    pc = "done" =>
        /\ ContentFieldBuilt(content_field, fetched.content)
        /\ EndsWithMarker(content_field) => Len(fetched.content) > 500

\* C16 amended: the content field is built as above; a content field of
\* more than 500 characters ends with the marker and comes from a
\* truncation, and a text of at most 500 characters that ends with three
\* periods is stored as it is, ending like a truncated one.
C16_ContentField ==
    pc = "done" =>
        /\ ContentFieldBuilt(content_field, fetched.content)
        /\ Len(content_field) > 500 =>
               (EndsWithMarker(content_field) /\ Len(content_field) = 503
                    /\ Len(fetched.content) > 500)
        /\ (Len(fetched.content) <= 500 /\ EndsWithMarker(fetched.content)) =>
               (content_field = fetched.content /\ EndsWithMarker(content_field))

\* A text of 501 characters has been cut to 500 and marked.
C16_Witness ==
    /\ pc = "done"
    /\ Len(fetched.content) = 501
    /\ Len(content_field) = 503
    /\ EndsWithMarker(content_field)
    /\ content_field[500] = "a"

\* A text of 500 characters that ends with three periods is stored as it is.
C16_WitnessUntruncated ==
    /\ pc = "done"
    /\ Len(fetched.content) = 500
    /\ EndsWithMarker(fetched.content)
    /\ content_field = fetched.content

----------------------------------------------------------------------------
(* Claims about authenticate_gmail, checked under Spec *)

\* A step that is a call of authenticate_gmail.
AuthenticateStep == auth_calls' = auth_calls + 1

\* There is no usable cached token: no token.json, or one that is neither
\* valid nor refreshable.
NoUsableToken == token_json \in {"absent", "stale"}

\* C25: authenticate_gmail writes token.json only when the credentials were
\* just refreshed (an expired token with a refresh token) or just obtained
\* through the login flow (no usable token, credentials.json present), and
\* no other step writes it; with a valid cached token nothing is written;
\* with no usable token and no credentials.json it returns False, writes
\* nothing and leaves the service handle as it was, unset; it returns True
\* only with the service handle set.
C25_TokenWrittenAfterLoginOnly ==
    [][ /\ (token_writes' # token_writes \/ token_json' # token_json) =>
               /\ AuthenticateStep
               /\ token_json = "expired" \/ (NoUsableToken /\ credentials_json)
               /\ token_writes' = token_writes + 1
               /\ token_json' = "valid"
        /\ AuthenticateStep =>
               /\ token_json = "valid" => UNCHANGED <<token_writes, token_json>>
               /\ (NoUsableToken /\ ~credentials_json) =>
                      /\ auth_result' = "False"
                      /\ UNCHANGED <<token_writes, token_json, service>>
                      /\ service' = "None"
               /\ auth_result' = "True" => service' = "gmail"
      ]_vars

\* A call that went through the login flow has written the token and
\* returned True.
C25_Witness ==
    /\ auth_calls = 1
    /\ token_writes = 1
    /\ token_json = "valid"
    /\ credentials_json
    /\ auth_result = "True"
    /\ service = "gmail"

\* A call without a usable token and without credentials.json has returned
\* False and written nothing.
C25_WitnessNoCredentials ==
    /\ auth_calls = 1
    /\ token_writes = 0
    /\ token_json = "absent"
    /\ ~credentials_json
    /\ auth_result = "False"
    /\ service = "None"

----------------------------------------------------------------------------
(* Claims about the batch fetch_emails returns, checked under Spec *)

\* The record at position i is the one of a message whose retrieval failed:
\* empty strings and no urls.
DegradedRecord(r) ==
    /\ r.subject = ""
    /\ r.sender = ""
    /\ r.date = ""
    /\ r.content = <<>>
    /\ r.urls = <<>>

\* The records es are one per listed id up to position n, in listing order,
\* the record of a message whose retrieval failed being a degraded one.
OnePerListedId(es, n) ==
    /\ Len(es) = n
    /\ \A i \in 1..n :
           /\ es[i].id = messages[i]
           /\ ~trace[i].got.ok => DegradedRecord(es[i])

\* C21: when the listing succeeds and the batch is not aborted, fetch_emails
\* returns exactly one record per listed message id, in listing order, with
\* the listed id; a message whose retrieval fails still has its record, with
\* empty subject, sender, date and content (not the defaults of absent
\* headers) and no urls.  While the loop runs the records built so far are
\* those of the ids passed, and a record once appended is not changed.
C21_OneRecordPerListedId ==
    /\ [](pc = "fetching" => OnePerListedId(emails, idx - 1))
    /\ []((pc \in {"returned", "digested"} /\ service # "None" /\ ~BatchAborted) =>
              OnePerListedId(result, Len(messages)))
    /\ [][(pc = "fetching" /\ pc' = "fetching") =>
              (Len(emails') >= Len(emails)
                   /\ \A i \in DOMAIN emails : emails'[i] = emails[i])]_vars

\* A returned batch of two in the order listed, ids 2 then 1, the first
\* retrieved and the second not.
C21_Witness ==
    /\ pc = "returned"
    /\ messages = <<2, 1>>
    /\ Len(result) = 2
    /\ result[1].id = 2 /\ result[1].subject = "Hello"
    /\ result[2].id = 1 /\ ~trace[2].got.ok /\ DegradedRecord(result[2])

----------------------------------------------------------------------------
(* Inputs of SpecRecord: the body of the fetch_emails loop on contents    *)
(* whose lengths lie around the limit of the content field and around the *)
(* limit of the prompt, with a url before, across and beyond the limit    *)

UrlWindow == 12

\* The lengths of the text before the url.
LengthsNear(limit) == (limit - UrlWindow)..(limit + MaxOver)

\* What follows the url: nothing, a word, another url.
RecordEndings == {<<>>, <<" ", "b">>, <<" ">> \o UrlB}

\* Normalized texts: letters, a space, a url, an ending.
RecordTexts ==
    { [i \in 1..n |-> "a"] \o <<" ">> \o UrlAX \o e :
          n \in LengthsNear(ContentLimit) \cup LengthsNear(PromptLimit),
          e \in RecordEndings }

InitRecord ==
    /\ pc = "input"
    /\ fetched \in { [content |-> t, subject |-> "s", sender |-> "A", date |-> "d1",
                      failed |-> FALSE] : t \in RecordTexts }
    /\ variant \in Variants
    /\ openai_client \in (IF variant = "summarizer" THEN BOOLEAN ELSE {FALSE})
    /\ st_errors = (IF variant = "summarizer" /\ ~openai_client
                    THEN <<"OpenAI API key not found">> ELSE <<>>)
    /\ emails = <<>>
    /\ trace = <<>>
    /\ messages = <<>>
    /\ idx = 0
    /\ result = <<>>
    /\ api_calls = [list |-> 0, get |-> 0, annotate |-> 0]
    /\ service = "None"
    /\ token_json = "absent"
    /\ credentials_json = FALSE
    /\ auth_result = "none"
    /\ auth_calls = 0
    /\ token_writes = 0
    /\ content_field = <<>>
    /\ parser_strict = FALSE
    /\ payload = <<>>
    /\ cleaned = <<>>
    /\ message = <<>>
    /\ text = <<>>
    /\ found = <<>>
    /\ digest = <<>>
    /\ session_state = NoSession

\* The body of the loop, once, for the message 1 whose content is fetched.
BuildRecord ==
    /\ pc = "input"
    /\ \E turn \in fetch_emails_turns(variant, openai_client, 1, fetched, Replies) :
        /\ emails' = turn.records
        /\ trace' = <<[id |-> 1, content |-> fetched.content,
                       asked |-> turn.asked, prompt_content |-> turn.prompt_content,
                       reply |-> turn.reply, ann |-> turn.ann]>>
        /\ st_errors' = st_errors
               \o (IF turn.asked /\ turn.reply.kind \in {"raise", "not_json"}
                   THEN <<"Error in AI summarization">> ELSE <<>>)
               \o (IF turn.raises THEN <<"Error fetching emails">> ELSE <<>>)
    /\ pc' = "done"
    /\ UNCHANGED <<variant, openai_client, digest, messages, idx, result, api_calls>>
    /\ UNCHANGED <<urlVars, authVars>>
    /\ UNCHANGED <<parser_strict, contentVars, mainVars>>

NextRecord == BuildRecord

SpecRecord == InitRecord /\ [][NextRecord]_vars

----------------------------------------------------------------------------
(* Claims about the urls and the prompt of a long content, checked under  *)
(* SpecRecord                                                             *)

\* Whether the url u stands in t as a whole word.
OccursWhole(t, u) ==
    \E p \in 1..Len(t) :
        /\ HasAt(t, p, u)
        /\ p = 1 \/ t[p - 1] = " "
        /\ p + Len(u) > Len(t) \/ t[p + Len(u)] = " "

\* Where the first url of the fetched content starts and ends.
UrlStart == CHOOSE p \in 1..Len(fetched.content) : HasAt(fetched.content, p, UrlAX)
UrlEnd == UrlStart + Len(UrlAX) - 1

\* C24: the urls of a record are the urls of the whole normalized content,
\* each once and whole, whether or not they lie within the first 500
\* characters that the content field keeps; and the annotation request of
\* the summarizer is given the whole content when it has at most 3000
\* characters, its first 3000 characters otherwise, never the content field.
C24_UrlsOfWholeContent ==
    /\ (pc = "done" /\ emails # <<>>) =>
           /\ \A u \in {UrlAX, UrlB} :
                  u \in ToSet(emails[1].urls) <=> OccursWhole(fetched.content, u)
           /\ ToSet(emails[1].urls) \subseteq {UrlAX, UrlB}
           /\ Cardinality(ToSet(emails[1].urls)) = Len(emails[1].urls)
           /\ ContentFieldBuilt(emails[1].content, fetched.content)
    /\ (pc = "done" /\ trace[1].asked) =>
           /\ Len(fetched.content) <= 3000 => trace[1].prompt_content = fetched.content
           /\ Len(fetched.content) > 3000 =>
                  trace[1].prompt_content = SubSeq(fetched.content, 1, 3000)

\* A url that lies across position 500 is in urls, and not in the content
\* field.
C24_Witness ==
    /\ pc = "done"
    /\ emails # <<>>
    /\ UrlStart <= 500 /\ UrlEnd > 500
    /\ emails[1].urls = <<UrlAX>>
    /\ ~OccursWhole(emails[1].content, UrlAX)
    /\ Len(emails[1].content) = 503

\* A url beyond position 500 in a content of more than 3000 characters: the
\* request is given 3000 characters, the content field 500 and the marker.
C24_WitnessPrompt ==
    /\ pc = "done"
    /\ emails # <<>>
    /\ variant = "summarizer"
    /\ trace[1].asked
    /\ Len(fetched.content) > 3000
    /\ Len(trace[1].prompt_content) = 3000
    /\ UrlStart > 500
    /\ UrlAX \in ToSet(emails[1].urls)
    /\ Len(emails[1].content) = 503

----------------------------------------------------------------------------
(* main: the dashboard session.  Every run of the script constructs a     *)
(* fresh object; st.session_state lasts from run to run.  One action for  *)
(* each button: the whole run of the script in which it is pressed.       *)

MaxPresses == 2

\* The lists fetch_emails may return once the ids are listed: the loop over
\* ids, with acc the records appended so far.  An exception in a turn ends
\* the call with [].
RECURSIVE fetch_emails_loop(_, _, _, _, _, _, _)
fetch_emails_loop(v, client, strict, ids, gets, replies, acc) ==
    IF ids = <<>> THEN {acc}
    ELSE UNION { UNION { IF turn.raises THEN {<<>>}
                         ELSE fetch_emails_loop(v, client, strict, Tail(ids), gets,
                                                replies, acc \o turn.records)
                         : turn \in fetch_emails_turns(v, client, Head(ids),
                                                       FetchedContent[got, strict],
                                                       replies) }
                 : got \in gets }

\* The lists fetch_emails may return on an object with the service svc: []
\* without a service or when the list request raises, else what the loop
\* gives for the ids listed.
fetch_emails_returns(v, client, svc, strict, lists, gets, replies) ==
    IF service_missing(svc) THEN {<<>>}
    ELSE {<<>>} \cup UNION { fetch_emails_loop(v, client, strict, ids, gets, replies, <<>>)
                             : ids \in lists }

\* In the session: the ids 1, 2, ... as listed; a message that is retrieved
\* and one that is not; a reply with every field, a reply whose
\* action_items is null, a reply that is a JSON array.
MainIdLists == { [i \in 1..n |-> i] : n \in 0..MaxMsgs }

MainGets == { [ok |-> TRUE, msg |-> MessageSingle], [ok |-> FALSE, msg |-> MessageEmpty] }

ReplyNullItems ==
    [kind |-> "json",
     value |-> Object([summary |-> "sum", key_points |-> <<>>,
                       action_items |-> NoneItems, sentiment |-> "neutral"])]

MainReplies ==
    { [kind |-> "json",
       value |-> Object([summary |-> "sum", key_points |-> <<"k1">>,
                         action_items |-> <<"i1">>, sentiment |-> "positive"])],
      ReplyNullItems,
      [kind |-> "json", value |-> [type |-> "array", fields |-> NoFields]] }

\* What a fetch_emails call of the session may return, for each class, with
\* and without a client, with and without a service.
MainFetched ==
    [v \in Variants, client \in BOOLEAN, svc \in {"None", "gmail"} |->
        fetch_emails_returns(v, client, svc, FALSE, MainIdLists, MainGets, MainReplies)]

\* if not hasattr(st.session_state, 'authenticated'): ... = False
main_prologue(s) ==
    IF s.authenticated = <<>> THEN [s EXCEPT !.authenticated = <<FALSE>>] ELSE s

\* A mutant: the session marked authenticated and the object stored whatever
\* authenticate_gmail returned.
session_after_authenticate_unchecked(s, returned, object) ==
    IF returned = "raised" THEN s
    ELSE [s EXCEPT !.authenticated = <<TRUE>>, !.object = <<object>>]

\* The session after the Authenticate button: authenticated and the object
\* are stored when authenticate_gmail returned True, and only then.
session_after_authenticate(s, returned, object) ==
    IF returned = "True"
    THEN [s EXCEPT !.authenticated = <<TRUE>>, !.object = <<object>>]
    ELSE s

\* Whether the script gets past st.stop() to the Fetch button.
reaches_fetch_button(s) == s.authenticated = <<TRUE>>

\* The sessions after the Fetch button, fetch_emails having returned es: a
\* non-empty list is stored, then its digest; create_digest leaving with an
\* exception leaves the digest as it was.
sessions_after_fetch(v, s, es) ==
    IF es = <<>> THEN {s}
    ELSE IF create_digest_raises(v, es) THEN {[s EXCEPT !.emails = <<es>>]}
    ELSE {[s EXCEPT !.emails = <<es>>, !.digest = <<d>>] : d \in create_digest(v, es)}

\* The message of the constructor of the fresh object.
constructor_errors(v, client) ==
    IF v = "summarizer" /\ ~client THEN <<"OpenAI API key not found">> ELSE <<>>

\* The first run of the script is over: session_state is as the prologue
\* left it, nothing has been pressed.
InitMain ==
    /\ pc = "session"
    /\ variant \in Variants
    /\ openai_client \in (IF variant = "summarizer" THEN BOOLEAN ELSE {FALSE})
    /\ st_errors = constructor_errors(variant, openai_client)
    /\ session_state = main_prologue(NoSession)
    /\ service = "None"
    /\ token_json \in TokenStates
    /\ credentials_json \in BOOLEAN
    /\ auth_result = "none"
    /\ auth_calls = 0
    /\ token_writes = 0
    /\ messages = <<>>
    /\ idx = 0
    /\ emails = <<>>
    /\ result = <<>>
    /\ trace = <<>>
    /\ api_calls = [list |-> 0, get |-> 0, annotate |-> 0]
    /\ text = <<>>
    /\ found = <<>>
    /\ digest = <<>>
    /\ parser_strict = FALSE
    /\ ContentAtRest

\* A run with the Authenticate button pressed: authenticate_gmail on the
\* fresh object of the run.  service is the service of that object, trace
\* the one handler of the run, st_errors the messages of the run.
main_authenticate ==
    /\ pc = "session"
    /\ auth_calls < MaxPresses
    /\ auth_calls' = auth_calls + 1
    /\ \E out \in authenticate_outcomes(token_json, credentials_json) :
        LET fresh == IF out.builds THEN "gmail" ELSE "None"
        IN
        /\ auth_result' = out.result
        /\ service' = fresh
        /\ token_json' = out.token
        /\ token_writes' = token_writes + out.writes
        /\ session_state' = session_after_authenticate(main_prologue(session_state),
                                out.result, [service |-> fresh])
        /\ trace' = <<[handler |-> "authenticate", ran_on |-> "fresh",
                       service |-> fresh]>>
        /\ st_errors' = constructor_errors(variant, openai_client) \o out.errors
               \o (IF out.result = "False"
                   THEN <<"Gmail authentication failed!">> ELSE <<>>)
    /\ result' = <<>>
    /\ UNCHANGED <<pc, variant, openai_client, credentials_json, emails, digest>>
    /\ UNCHANGED <<urlVars, messages, idx, api_calls>>
    /\ UNCHANGED <<parser_strict, contentVars>>

\* A run with the Fetch button pressed, which takes a run that gets past
\* st.stop(): fetch_emails on the stored object when there is one, on the
\* fresh object of the run otherwise; then the list and its digest stored.
\* result is what fetch_emails returned.
main_fetch ==
    /\ pc = "session"
    /\ reaches_fetch_button(main_prologue(session_state))
    /\ LET s      == main_prologue(session_state)
           stored == s.object # <<>>
           svc    == IF stored THEN s.object[1].service ELSE "None"
       IN
       \E es \in MainFetched[variant, openai_client, svc] :
           /\ result' = es
           /\ session_state' \in sessions_after_fetch(variant, s, es)
           /\ trace' = <<[handler |-> "fetch",
                          ran_on  |-> IF stored THEN "stored" ELSE "fresh",
                          service |-> svc]>>
           /\ st_errors' = constructor_errors(variant, openai_client)
                  \o (IF es = <<>>
                      THEN <<"No emails found or error occurred.">> ELSE <<>>)
    /\ service' = "None"
    /\ UNCHANGED <<pc, variant, openai_client, emails, digest>>
    /\ UNCHANGED <<token_json, credentials_json, auth_result, auth_calls, token_writes>>
    /\ UNCHANGED <<urlVars, messages, idx, api_calls>>
    /\ UNCHANGED <<parser_strict, contentVars>>

NextMain ==
    \/ main_authenticate
    \/ main_fetch

SpecMain == InitMain /\ [][NextMain]_vars

----------------------------------------------------------------------------
(* Claims about the session, checked under SpecMain *)

\* A step of SpecMain in which the Fetch button was pressed.
FetchStep == trace' # <<>> /\ trace'[1].handler = "fetch"

\* The stored list is never the empty list.
StoredEmailsNotEmpty ==
    session_state.emails # <<>> => session_state.emails[1] # <<>>

\* A fetch that returns [] leaves the stored emails and digest as they were.
EmptyFetchKeepsSession ==
    (FetchStep /\ result' = <<>>) =>
        /\ session_state'.emails = session_state.emails
        /\ session_state'.digest = session_state.digest

\* The stored digest is a digest of the stored list.
DigestOfStoredEmails ==
    session_state.emails # <<>> =>
        /\ session_state.digest # <<>>
        /\ session_state.digest[1] \in create_digest(variant, session_state.emails[1])

\* C22 as stated: whatever fetches have run, the stored digest is the
\* digest of the stored emails, the stored emails are not empty once set,
\* and a fetch that returns an empty list changes neither.
C22_DigestOfStoredEmails ==
    /\ []DigestOfStoredEmails
    /\ []StoredEmailsNotEmpty
    /\ [][EmptyFetchKeepsSession]_vars

\* What holds of C22 in both classes: the stored emails are not empty once
\* set, an empty fetch changes nothing, and the stored digest is the digest
\* of the stored emails unless create_digest raised for them.
C22_ExceptWhenDigestRaises ==
    /\ [](~create_digest_raises(variant, IF session_state.emails = <<>> THEN <<>>
                                         ELSE session_state.emails[1])
            => DigestOfStoredEmails)
    /\ []StoredEmailsNotEmpty
    /\ [][EmptyFetchKeepsSession]_vars

\* C23: authenticated is True only with a stored object that has its
\* service, the Fetch button is pressed only in a session whose
\* authenticated is True, and its fetch_emails runs on the stored object
\* with its service, not on the fresh object of the run.
C23_FetchOnStoredObject ==
    /\ [](session_state.authenticated = <<TRUE>> =>
             /\ session_state.object # <<>>
             /\ session_state.object[1].service = "gmail")
    /\ [][FetchStep =>
             /\ session_state.authenticated = <<TRUE>>
             /\ trace'[1].ran_on = "stored"
             /\ trace'[1].service = "gmail"
             /\ session_state'.object = session_state.object
             /\ session_state'.authenticated = <<TRUE>>]_vars

\* A fetch in an authenticated session has stored a list and its digest,
\* after an authentication that failed in an earlier run.
C23_Witness ==
    /\ pc = "session"
    /\ auth_calls = 2
    /\ session_state.authenticated = <<TRUE>>
    /\ session_state.object = <<[service |-> "gmail"]>>
    /\ trace # <<>> /\ trace[1].handler = "fetch" /\ trace[1].ran_on = "stored"
    /\ service = "None"
    /\ Len(result) = 2
    /\ session_state.emails = <<result>>
    /\ DigestOfStoredEmails

====
